---- MODULE Spec2Model ----
(***************************************************************************)
(* Client-side security and cart-state manager of the storefront:          *)
(* SecurityManager (src/src/scripts/security.js) and the cart store        *)
(* (src/src/scripts/app.js), as state machines over the browser state      *)
(* they read and write: the clock, the window globals and localStorage.    *)
(***************************************************************************)
EXTENDS Integers, Sequences, FiniteSets, TLC

VARIABLES
    now,                 \* the last reading of Date.now()
    csrfToken,           \* SecurityManager.csrfToken
    rateLimitStore,      \* SecurityManager.rateLimitStore: Map key -> timestamp
    securityLogs,        \* localStorage['security-logs']
    cart,                \* app.js: let cart
    storedCart,          \* localStorage['performance-builder-cart']
    cartSecurityManager, \* window.cartSecurityManager: "undefined" | "installed"
    last,                \* the last call: its name, arguments and what it did
    accepted,            \* history: per operation, the clock readings of the
                         \* checkRateLimit calls that returned true, newest last
    heap,                \* the cart item objects of the checkout page, by reference
    mockCart,            \* MockShopCart.localCart (window.cart), as references
    mockShopCart,        \* localStorage['mockShopCart']
    checkout,            \* window.checkout: the fields of PerformanceCheckout
    performanceCart,     \* localStorage['performanceCart']
    modal,               \* #customCheckoutModal in the document, its complete button
    inFlight             \* the completeOrder calls awaiting simulateOrderProcessing

vars == <<now, csrfToken, rateLimitStore, securityLogs, cart, storedCart,
          cartSecurityManager, last, accepted, heap, mockCart, mockShopCart,
          checkout, performanceCart, modal, inFlight>>

(***************************************************************************)
(* Strings (JavaScript String.prototype)                                   *)
(***************************************************************************)
\* Body(v) for v the value of val, worked out once.
With(val, Body(_)) == CHOOSE out \in {Body(v) : v \in {val}} : TRUE

CharAt(s, i) == SubSeq(s, i, i)

CharsOf(s) == {CharAt(s, i) : i \in 1..Len(s)}

startsWith(s, p) == Len(p) <= Len(s) /\ SubSeq(s, 1, Len(p)) = p

includes(s, sub) ==
    \E i \in 1..(Len(s) - Len(sub) + 1) : SubSeq(s, i, i + Len(sub) - 1) = sub

IndexIn(s, c) == CHOOSE i \in 1..Len(s) : CharAt(s, i) = c

Digits == "0123456789"

(***************************************************************************)
(* Natural numbers of any size: the sequence of their digits in radix     *)
(* 2^15, the least significant first, with no zero at the top (0 is <<>>). *)
(***************************************************************************)
Radix == 2^15

Trim(a) ==
    IF a = <<>> \/ a[Len(a)] # 0 THEN a
    ELSE SubSeq(a, 1, CHOOSE n \in 0..Len(a) :
                        /\ n = 0 \/ a[n] # 0
                        /\ \A i \in (n + 1)..Len(a) : a[i] = 0)

RECURSIVE BigOf(_)
BigOf(n) == IF n = 0 THEN <<>> ELSE <<n % Radix>> \o BigOf(n \div Radix)

Limb(a, i) == IF i <= Len(a) THEN a[i] ELSE 0

\* The number of binary digits of a, and its binary digit of weight 2^k.
DigitBits(x) ==
    IF x < 128
    THEN IF x < 8 THEN (IF x < 2 THEN x ELSE IF x < 4 THEN 2 ELSE 3)
         ELSE (IF x < 16 THEN 4 ELSE IF x < 32 THEN 5 ELSE IF x < 64 THEN 6 ELSE 7)
    ELSE IF x < 2048
    THEN (IF x < 256 THEN 8 ELSE IF x < 512 THEN 9 ELSE IF x < 1024 THEN 10 ELSE 11)
    ELSE (IF x < 4096 THEN 12 ELSE IF x < 8192 THEN 13
          ELSE IF x < 16384 THEN 14 ELSE 15)

BitLen(a) ==
    IF a = <<>> THEN 0 ELSE 15 * (Len(a) - 1) + DigitBits(a[Len(a)])

Bit(a, k) == (Limb(a, (k \div 15) + 1) \div 2^(k % 15)) % 2

\* a is a multiple of 2^k.
LowZero(a, k) ==
    /\ \A i \in 1..(k \div 15) : Limb(a, i) = 0
    /\ Limb(a, (k \div 15) + 1) % 2^(k % 15) = 0

\* The largest k with a a multiple of 2^k, for a # 0.
TrailingZeros(a) ==
    With(CHOOSE i \in 1..Len(a) : a[i] # 0 /\ \A j \in 1..(i - 1) : a[j] = 0,
         LAMBDA i :
            15 * (i - 1)
                + (CHOOSE b \in 0..14 : a[i] % 2^b = 0 /\ a[i] % 2^(b + 1) # 0))

\* -1, 0, 1 as a < b, a = b, a > b.
BigCmp(a, b) ==
    IF Len(a) < Len(b) THEN 0 - 1
    ELSE IF Len(a) > Len(b) THEN 1
    ELSE IF a = b THEN 0
    ELSE With(CHOOSE i \in 1..Len(a) :
                    a[i] # b[i] /\ \A j \in (i + 1)..Len(a) : a[j] = b[j],
              LAMBDA i : IF a[i] < b[i] THEN 0 - 1 ELSE 1)

\* The digits lo..hi of a + b with the carry c they take, and the carry
\* they give; the digits are worked out by halves, the lower half first.
RECURSIVE AddRange(_, _, _, _, _)
AddRange(a, b, lo, hi, c) ==
    IF lo > hi THEN [s |-> <<>>, c |-> c]
    ELSE IF lo = hi
    THEN With(Limb(a, lo) + Limb(b, lo) + c, LAMBDA t :
            [s |-> <<t % Radix>>, c |-> t \div Radix])
    ELSE With(AddRange(a, b, lo, (lo + hi) \div 2, c), LAMBDA low :
         With(AddRange(a, b, (lo + hi) \div 2 + 1, hi, low.c), LAMBDA high :
            [s |-> low.s \o high.s, c |-> high.c]))

BigAdd(a, b) ==
    With(AddRange(a, b, 1, IF Len(a) > Len(b) THEN Len(a) ELSE Len(b), 0),
         LAMBDA out : IF out.c = 0 THEN out.s ELSE Append(out.s, out.c))

\* a - b for a >= b, likewise, c the digit borrowed.
RECURSIVE SubRange(_, _, _, _, _)
SubRange(a, b, lo, hi, c) ==
    IF lo > hi THEN [s |-> <<>>, c |-> c]
    ELSE IF lo = hi
    THEN With(a[lo] - Limb(b, lo) - c, LAMBDA t :
            IF t < 0 THEN [s |-> <<t + Radix>>, c |-> 1]
            ELSE [s |-> <<t>>, c |-> 0])
    ELSE With(SubRange(a, b, lo, (lo + hi) \div 2, c), LAMBDA low :
         With(SubRange(a, b, (lo + hi) \div 2 + 1, hi, low.c), LAMBDA high :
            [s |-> low.s \o high.s, c |-> high.c]))

BigSub(a, b) == Trim(SubRange(a, b, 1, Len(a), 0).s)

\* a * k for 0 < k < Radix, likewise.
RECURSIVE MulRange(_, _, _, _, _)
MulRange(a, k, lo, hi, c) ==
    IF lo > hi THEN [s |-> <<>>, c |-> c]
    ELSE IF lo = hi
    THEN With(a[lo] * k + c, LAMBDA t :
            [s |-> <<t % Radix>>, c |-> t \div Radix])
    ELSE With(MulRange(a, k, lo, (lo + hi) \div 2, c), LAMBDA low :
         With(MulRange(a, k, (lo + hi) \div 2 + 1, hi, low.c), LAMBDA high :
            [s |-> low.s \o high.s, c |-> high.c]))

MulSmall(a, k) ==
    With(MulRange(a, k, 1, Len(a), 0), LAMBDA out :
        IF out.c = 0 THEN out.s ELSE Append(out.s, out.c))

\* a * 2^k and the whole part of a / 2^k.
ShiftLeft(a, k) ==
    IF a = <<>> \/ k = 0 THEN a
    ELSE [i \in 1..(k \div 15) |-> 0] \o MulSmall(a, 2^(k % 15))

ShiftRight(a, k) ==
    IF k \div 15 >= Len(a) THEN <<>>
    ELSE Trim([i \in 1..(Len(a) - (k \div 15)) |->
                  a[(k \div 15) + i] \div 2^(k % 15)
                      + (Limb(a, (k \div 15) + i + 1) % 2^(k % 15))
                            * 2^(15 - (k % 15))])

\* a * b, one digit of b at a time.
RECURSIVE BigMulFrom(_, _, _)
BigMulFrom(a, b, j) ==
    IF j > Len(b) THEN <<>>
    ELSE With(BigMulFrom(a, b, j + 1), LAMBDA rest :
            BigAdd(MulSmall(a, b[j]),
                   IF rest = <<>> THEN <<>> ELSE <<0>> \o rest))

BigMul(a, b) == IF a = <<>> THEN <<>> ELSE Trim(BigMulFrom(a, b, 1))

\* The whole part q of a / d and what is left, r, for 0 < d < Radix: the
\* digits lo..hi of q given what the digits above left, by halves, the
\* upper half first.
RECURSIVE DivRange(_, _, _, _, _)
DivRange(a, d, lo, hi, r) ==
    IF lo > hi THEN [q |-> <<>>, r |-> r]
    ELSE IF lo = hi
    THEN With(r * Radix + a[lo], LAMBDA t :
            [q |-> <<t \div d>>, r |-> t % d])
    ELSE With(DivRange(a, d, (lo + hi) \div 2 + 1, hi, r), LAMBDA high :
         With(DivRange(a, d, lo, (lo + hi) \div 2, high.r), LAMBDA low :
            [q |-> low.q \o high.q, r |-> low.r]))

DivSmall(a, d) ==
    With(DivRange(a, d, 1, Len(a), 0), LAMBDA out :
        [q |-> Trim(out.q), r |-> out.r])

RECURSIVE Pow10(_)
Pow10(n) == IF n = 0 THEN 1 ELSE 10 * Pow10(n - 1)

\* a * 10^n, and the whole part q of a / 10^n with whether anything is
\* left; four decimal digits at a time, n by halves.
RECURSIVE MulPow10(_, _)
MulPow10(a, n) ==
    IF n <= 4 THEN MulSmall(a, Pow10(n))
    ELSE With(MulPow10(a, n \div 2), LAMBDA half :
            MulPow10(half, n - (n \div 2)))

RECURSIVE DivPow10(_, _)
DivPow10(a, n) ==
    IF n <= 4
    THEN With(DivSmall(a, Pow10(n)), LAMBDA d :
            [q |-> d.q, inexact |-> d.r # 0])
    ELSE With(DivPow10(a, n \div 2), LAMBDA first :
         With(DivPow10(first.q, n - (n \div 2)), LAMBDA rest :
            [q |-> rest.q, inexact |-> first.inexact \/ rest.inexact]))

(***************************************************************************)
(* Numbers (IEEE-754 binary64, the Number type).  A finite number is       *)
(* (-1)^neg * M * 2^E with M odd and below 2^53 (zero is M = <<>>, E = 0;  *)
(* 1 is M = <<1>>, E = 0; 29.99 is the double nearest to it,               *)
(* 8441347975552041 * 2^-48), so that equal numbers are equal records; inf *)
(* is the sign of an infinity.  Every operation gives the double nearest   *)
(* to its exact result, ties to the even one.  -0 is not told from 0.      *)
(***************************************************************************)
NaN ==
    [t |-> "number", nan |-> TRUE, inf |-> 0, neg |-> FALSE, M |-> <<>>,
     E |-> 0]

\* Infinity (sign 1) and -Infinity (sign -1).
Infinity(sign) ==
    [t |-> "number", nan |-> FALSE, inf |-> sign, neg |-> FALSE, M |-> <<>>,
     E |-> 0]

Zero ==
    [t |-> "number", nan |-> FALSE, inf |-> 0, neg |-> FALSE, M |-> <<>>,
     E |-> 0]

\* The number (-1)^neg * M * 2^E for M below 2^53, E >= -1074 and the
\* number below 2^1024.
Finite(neg, M, E) ==
    IF M = <<>> THEN Zero
    ELSE IF M[1] % 2 = 1
    THEN [t |-> "number", nan |-> FALSE, inf |-> 0, neg |-> neg, M |-> M,
          E |-> E]
    ELSE With(TrailingZeros(M), LAMBDA z :
            [t |-> "number", nan |-> FALSE, inf |-> 0, neg |-> neg,
             M |-> ShiftRight(M, z), E |-> E + z])

\* The double nearest to (-1)^neg * (Q + f) * 2^E, where 0 <= f < 1 and
\* inexact tells f > 0: Q keeps its 53 leading binary digits, and fewer
\* below 2^-1022; the k digits dropped round to nearest, ties to even, and
\* 2^1024 or more is an infinity.
Round(neg, Q, inexact, E) ==
    With(IF BitLen(Q) - 53 > 0 - 1074 - E
         THEN (IF BitLen(Q) - 53 > 0 THEN BitLen(Q) - 53 ELSE 0)
         ELSE (IF 0 - 1074 - E > 0 THEN 0 - 1074 - E ELSE 0), LAMBDA k :
    With(BigAdd(ShiftRight(Q, k),
                IF k > 0 /\ Bit(Q, k - 1) = 1
                    /\ (inexact \/ ~LowZero(Q, k - 1) \/ Bit(Q, k) = 1)
                THEN <<1>> ELSE <<>>), LAMBDA R :
        IF BitLen(R) + E + k > 1024 THEN Infinity(IF neg THEN 0 - 1 ELSE 1)
        ELSE Finite(neg, R, E + k)))

\* The double nearest to (-1)^neg * N / 10^e, what a decimal literal is
\* read as: N * 10^-e for e <= 0, and otherwise the whole part of
\* N * 2^s / 10^e, of 56 binary digits or more, times 2^-s.
Decimal(neg, N, e) ==
    IF N = <<>> \/ e - BitLen(N) > 330 THEN Zero
    ELSE IF 0 - e > 310 THEN Infinity(IF neg THEN 0 - 1 ELSE 1)
    ELSE With(IF e > 0 /\ 56 + 4 * e > BitLen(N)
              THEN 56 + 4 * e - BitLen(N) ELSE 0, LAMBDA s :
         With(IF e <= 0 THEN [q |-> MulPow10(N, 0 - e), inexact |-> FALSE]
              ELSE DivPow10(ShiftLeft(N, s), e), LAMBDA d :
            Round(neg, d.q, d.inexact, 0 - s)))

\* The number literal m / 10^e.
Dec(m, e) == Decimal(m < 0, BigOf(IF m < 0 THEN 0 - m ELSE m), e)

\* The number literal of h hundredths, and the whole number i (below 2^53
\* either way, so a double).
Num(h) == Dec(h, 2)

RECURSIVE WholeFrom(_, _, _)
WholeFrom(neg, n, E) ==
    IF n % 2 = 0 THEN WholeFrom(neg, n \div 2, E + 1)
    ELSE [t |-> "number", nan |-> FALSE, inf |-> 0, neg |-> neg,
          M |-> BigOf(n), E |-> E]

Whole(i) ==
    IF i = 0 THEN Zero ELSE WholeFrom(i < 0, IF i < 0 THEN 0 - i ELSE i, 0)

Sign(v) ==
    IF v.inf # 0 THEN v.inf
    ELSE IF v.M = <<>> THEN 0
    ELSE IF v.neg THEN 0 - 1
    ELSE 1

\* -1, 0, 1 as |a| < |b|, |a| = |b|, |a| > |b| for finite numbers but 0.
CmpMagnitude(a, b) ==
    LET d == BitLen(a.M) + a.E - BitLen(b.M) - b.E
    IN  IF d < 0 THEN 0 - 1
        ELSE IF d > 0 THEN 1
        ELSE BigCmp(ShiftLeft(a.M, IF a.E > b.E THEN a.E - b.E ELSE 0),
                    ShiftLeft(b.M, IF b.E > a.E THEN b.E - a.E ELSE 0))

\* a < b, a <= b, a > b, a >= b on numbers: false when either is NaN.
Less(a, b) ==
    IF a.nan \/ b.nan \/ a = b THEN FALSE
    ELSE IF a.inf # 0 \/ b.inf # 0 THEN a.inf < b.inf
    ELSE IF a.M = <<>> THEN ~b.neg
    ELSE IF b.M = <<>> \/ a.neg # b.neg THEN a.neg
    ELSE (CmpMagnitude(a, b) < 0) # a.neg

AtMost(a, b) == ~a.nan /\ ~b.nan /\ (a = b \/ Less(a, b))

Greater(a, b) == Less(b, a)

AtLeast(a, b) == AtMost(b, a)

\* a + b on finite numbers but 0: a number more than 2^60 times the other
\* is the sum; otherwise the exact sum, rounded.
PlusFinite(a, b) ==
    IF BitLen(a.M) + a.E > BitLen(b.M) + b.E + 60 THEN a
    ELSE IF BitLen(b.M) + b.E > BitLen(a.M) + a.E + 60 THEN b
    ELSE With(IF a.E < b.E THEN a.E ELSE b.E, LAMBDA E :
         With(ShiftLeft(a.M, a.E - E), LAMBDA A :
         With(ShiftLeft(b.M, b.E - E), LAMBDA B :
         With(BigCmp(A, B) >= 0, LAMBDA larger :
            Round(IF larger THEN a.neg ELSE b.neg,
                  IF a.neg = b.neg THEN BigAdd(A, B)
                  ELSE BigSub(IF larger THEN A ELSE B,
                              IF larger THEN B ELSE A),
                  FALSE, E)))))

\* a + b and a * b on numbers.
Plus(a, b) ==
    IF a.nan \/ b.nan THEN NaN
    ELSE IF a.inf # 0 /\ b.inf # 0 THEN IF a.inf = b.inf THEN a ELSE NaN
    ELSE IF a.inf # 0 THEN a
    ELSE IF b.inf # 0 THEN b
    ELSE IF a.M = <<>> THEN b
    ELSE IF b.M = <<>> THEN a
    ELSE PlusFinite(a, b)

Times(a, b) ==
    IF a.nan \/ b.nan THEN NaN
    ELSE IF a.inf # 0 \/ b.inf # 0
    THEN IF Sign(a) = 0 \/ Sign(b) = 0 THEN NaN ELSE Infinity(Sign(a) * Sign(b))
    ELSE Round(a.neg # b.neg, BigMul(a.M, b.M), FALSE, a.E + b.E)

\* The whole number v as an integer, for |v| below 2^31.
ToInt(v) ==
    With(ShiftLeft(v.M, v.E), LAMBDA a :
        (IF v.neg THEN 0 - 1 ELSE 1)
            * (Limb(a, 1) + Radix * Limb(a, 2) + Radix * Radix * Limb(a, 3)))

(***************************************************************************)
(* JavaScript values other than numbers.                                   *)
(***************************************************************************)
Undefined == [t |-> "undefined"]

Null == [t |-> "null"]

Bool(b) == [t |-> "boolean", b |-> b]

Str(s) == [t |-> "string", s |-> s]

Arr(a) == [t |-> "array", a |-> a]

\* An object literal with the five properties a cart item may carry; a
\* property the object lacks reads as Undefined.
Obj(id, title, price, image, quantity) ==
    [t |-> "object", id |-> id, title |-> title, price |-> price,
     image |-> image, quantity |-> quantity]

EmptyObj == Obj(Undefined, Undefined, Undefined, Undefined, Undefined)

ItemProps == {"id", "title", "price", "image", "quantity"}

\* typeof v
typeof(v) ==
    CASE v.t = "undefined" -> "undefined"
      [] v.t = "boolean" -> "boolean"
      [] v.t = "string" -> "string"
      [] v.t = "number" -> "number"
      [] OTHER -> "object"

\* v[p] for p one of the item properties; reading a property of null or
\* undefined throws a TypeError, which the callers test with ThrowsOnRead.
ThrowsOnRead(v) == v.t \in {"null", "undefined"}

Prop(v, p) == IF v.t = "object" THEN v[p] ELSE Undefined

\* Number.isInteger(v)
isInteger(v) ==
    v.t = "number" /\ ~v.nan /\ v.inf = 0 /\ (v.M = <<>> \/ v.E >= 0)

(***************************************************************************)
(* localStorage: a key holds no item, a text JSON.parse rejects (the empty  *)
(* text among these), or the JSON text of a value.                         *)
(***************************************************************************)
NoItem == [t |-> "absent"]

InvalidJSON == [t |-> "text", json |-> FALSE]

EmptyText == [t |-> "text", json |-> FALSE, empty |-> TRUE]

\* getItem(key) is falsy (in `getItem(key) || x` and `saved ? a : b`): null
\* for no item, or the empty text.
NothingRead(stored) == stored = NoItem \/ stored = EmptyText

Json(v) == [t |-> "text", json |-> TRUE, v |-> v]

(***************************************************************************)
(* SecurityManager: event logging                                          *)
(***************************************************************************)
LOG_CAP == 100

highSeverityEvents ==
    {"CSRF_TOKEN_INVALID", "CSRF_TOKEN_EXPIRED", "RATE_LIMIT_EXCEEDED",
     "INVALID_PRODUCT_ID", "INVALID_PRODUCT_PRICE"}

\* storeSecurityLog keeping the oldest 100 entries.
storeSecurityLog_KeepsOldest(stored, logEntry) ==
    LET logs == IF NothingRead(stored) THEN Arr(<<>>)
                ELSE IF stored.json THEN stored.v ELSE Undefined
    IN  IF ~NothingRead(stored) /\ ~stored.json THEN stored
        ELSE IF logs.t # "array" THEN stored
        ELSE LET pushed == Append(logs.a, logEntry)
             IN  Json(Arr(IF Len(pushed) > LOG_CAP THEN SubSeq(pushed, 1, LOG_CAP)
                          ELSE pushed))

\* getSeverity without INVALID_PRODUCT_PRICE in its list.
getSeverity_PriceMedium(event) ==
    IF event \in highSeverityEvents \ {"INVALID_PRODUCT_PRICE"} THEN "HIGH"
    ELSE "MEDIUM"

getSeverity(event) == IF event \in highSeverityEvents THEN "HIGH" ELSE "MEDIUM"

\* The entry logSecurityEvent builds for an event.
LogEntry(event) == [t |-> "entry", event |-> event, severity |-> getSeverity(event)]

\* storeSecurityLog: the new value of localStorage['security-logs'].  No
\* item and the empty text read as '[]'.  Another text that does not parse,
\* or one that parses to something without push, throws inside the try and
\* leaves the stored value as it was.
storeSecurityLog(stored, logEntry) ==
    LET logs == IF NothingRead(stored) THEN Arr(<<>>)
                ELSE IF stored.json THEN stored.v ELSE Undefined
    IN  IF ~NothingRead(stored) /\ ~stored.json THEN stored
        ELSE IF logs.t # "array" THEN stored
        ELSE LET pushed == Append(logs.a, logEntry)
                 kept == IF Len(pushed) > LOG_CAP
                         THEN SubSeq(pushed, Len(pushed) - LOG_CAP + 1, Len(pushed))
                         ELSE pushed
             IN  Json(Arr(kept))

\* logSecurityEvent for each event of a call, in order.
RECURSIVE LogAll(_, _)
LogAll(stored, events) ==
    IF events = <<>> THEN stored
    ELSE LogAll(storeSecurityLog(stored, LogEntry(Head(events))), Tail(events))

(***************************************************************************)
(* SecurityManager: rate limiting                                          *)
(***************************************************************************)
RATE_LIMIT_WINDOW == 60 * 1000

RATE_LIMIT_MAX == 10

\* A clock reading that is no number (Date.now() returning NaN or a text such
\* as 'invalid-timestamp'); the readings of a working clock are naturals.
InvalidTimestamp == 0 - 1

\* a - b of JavaScript on a clock reading, a number: NaN for a reading that
\* is no number, which is different from every difference of numbers.  The
\* readings and the window are whole numbers below 2^53, on which the
\* arithmetic of doubles is exact, so the difference is kept as an integer.
MinusReading(a, b) ==
    IF a = InvalidTimestamp THEN [nan |-> TRUE, v |-> 0]
    ELSE [nan |-> FALSE, v |-> a - b]

\* The comparisons a < w, a >= w of a stored reading with such a number:
\* every comparison with what is no number is false.
LessReading(a, w) == a # InvalidTimestamp /\ ~w.nan /\ a < w.v

AtLeastReading(a, w) == a # InvalidTimestamp /\ ~w.nan /\ a >= w.v

\* `${operation}-${now}`
RateKey(operation, t) ==
    operation \o "-" \o (IF t = InvalidTimestamp THEN "invalid-timestamp" ELSE ToString(t))

\* checkRateLimit recording the request also when it rejects it.
checkRateLimit_RecordsRejected(store, operation, t) ==
    LET windowStart == MinusReading(t, RATE_LIMIT_WINDOW)
        key == RateKey(operation, t)
        keptKeys == {k \in DOMAIN store : ~LessReading(store[k], windowStart)}
        cleaned == [k \in keptKeys |-> store[k]]
        requestsInWindow ==
            Cardinality({k \in keptKeys :
                            startsWith(k, operation)
                                /\ AtLeastReading(cleaned[k], windowStart)})
        recorded == [k \in keptKeys \cup {key} |-> IF k = key THEN t ELSE cleaned[k]]
    IN  IF requestsInWindow >= RATE_LIMIT_MAX
        THEN [ret |-> FALSE, store |-> recorded, ev |-> <<"RATE_LIMIT_EXCEEDED">>]
        ELSE [ret |-> TRUE, store |-> recorded, ev |-> <<>>]

\* checkRateLimit(operation) at clock reading t: what it returns, the store
\* it leaves and the events it logs.
checkRateLimit(store, operation, t) ==
    LET windowStart == MinusReading(t, RATE_LIMIT_WINDOW)
        key == RateKey(operation, t)
        keptKeys == {k \in DOMAIN store : ~LessReading(store[k], windowStart)}
        cleaned == [k \in keptKeys |-> store[k]]
        requestsInWindow ==
            Cardinality({k \in keptKeys :
                            startsWith(k, operation)
                                /\ AtLeastReading(cleaned[k], windowStart)})
    IN  IF requestsInWindow >= RATE_LIMIT_MAX
        THEN [ret |-> FALSE, store |-> cleaned, ev |-> <<"RATE_LIMIT_EXCEEDED">>]
        ELSE [ret |-> TRUE,
              store |-> [k \in keptKeys \cup {key} |->
                            IF k = key THEN t ELSE cleaned[k]],
              ev |-> <<>>]

(***************************************************************************)
(* btoa and atob (base64 of a binary string), parseInt                     *)
(***************************************************************************)
B64 == "ABCDEFGHIJKLMNOPQRSTUVWXYZabcdefghijklmnopqrstuvwxyz0123456789+/"

\* The printable ASCII characters in code order: 32 (space) to 95, and 97
\* to 126 (a string cannot hold the grave accent, 96).
PrintableLow ==
    " !\"#$%&'()*+,-./0123456789:;<=>?@ABCDEFGHIJKLMNOPQRSTUVWXYZ[\\]^_"

PrintableHigh == "abcdefghijklmnopqrstuvwxyz{|}~"

CharCodes ==
    [c \in CharsOf(PrintableLow) \cup CharsOf(PrintableHigh) |->
        IF c \in CharsOf(PrintableLow) THEN 31 + IndexIn(PrintableLow, c)
        ELSE 96 + IndexIn(PrintableHigh, c)]

CharCode(c) == CharCodes[c]

\* The bytes (char codes) of a string.
Bytes(s) == [i \in 1..Len(s) |-> CharCode(CharAt(s, i))]

B64Char(i) == CharAt(B64, i + 1)

B64Chars == CharsOf(B64)

\* The six bits each character of the alphabet stands for.
B64Value == [c \in B64Chars |-> IndexIn(B64, c) - 1]

RECURSIVE EncodeBytes(_)
EncodeBytes(b) ==
    IF Len(b) = 0 THEN ""
    ELSE IF Len(b) = 1
    THEN B64Char(b[1] \div 4) \o B64Char((b[1] % 4) * 16) \o "=="
    ELSE IF Len(b) = 2
    THEN B64Char(b[1] \div 4) \o B64Char((b[1] % 4) * 16 + b[2] \div 16)
            \o B64Char((b[2] % 16) * 4) \o "="
    ELSE B64Char(b[1] \div 4) \o B64Char((b[1] % 4) * 16 + b[2] \div 16)
            \o B64Char((b[2] % 16) * 4 + b[3] \div 64) \o B64Char(b[3] % 64)
            \o EncodeBytes(SubSeq(b, 4, Len(b)))

\* btoa(s), for s of printable ASCII characters.
btoa(s) == EncodeBytes(Bytes(s))

AsciiWhitespace == {" ", "\t", "\n", "\f", "\r"}

RECURSIVE StripWhitespace(_)
StripWhitespace(s) ==
    IF Len(s) = 0 THEN ""
    ELSE IF Len(s) = 1 THEN IF s \in AsciiWhitespace THEN "" ELSE s
    ELSE With(StripWhitespace(SubSeq(s, 1, Len(s) \div 2)), LAMBDA left :
            left \o StripWhitespace(SubSeq(s, Len(s) \div 2 + 1, Len(s))))

RECURSIVE DecodeSextets(_)
DecodeSextets(x) ==
    IF Len(x) < 2 THEN <<>>
    ELSE IF Len(x) = 2 THEN <<x[1] * 4 + x[2] \div 16>>
    ELSE IF Len(x) = 3
    THEN <<x[1] * 4 + x[2] \div 16, (x[2] % 16) * 16 + x[3] \div 4>>
    ELSE <<x[1] * 4 + x[2] \div 16, (x[2] % 16) * 16 + x[3] \div 4,
           (x[3] % 4) * 64 + x[4]>> \o DecodeSextets(SubSeq(x, 5, Len(x)))

\* atob(data): the forgiving base64 decode.  ok is FALSE where atob throws
\* (a length of 1 modulo 4, or a character outside the alphabet); bytes are
\* the char codes of the binary string it returns.
atob(data) ==
    LET d1 == StripWhitespace(data)
        n1 == Len(d1)
        d2 == IF n1 % 4 = 0 /\ n1 >= 2 /\ SubSeq(d1, n1 - 1, n1) = "=="
              THEN SubSeq(d1, 1, n1 - 2)
              ELSE IF n1 % 4 = 0 /\ n1 >= 1 /\ CharAt(d1, n1) = "="
              THEN SubSeq(d1, 1, n1 - 1)
              ELSE d1
        bad == Len(d2) % 4 = 1 \/ \E i \in 1..Len(d2) : CharAt(d2, i) \notin B64Chars
    IN  IF bad THEN [ok |-> FALSE, bytes |-> <<>>]
        ELSE [ok |-> TRUE,
              bytes |-> DecodeSextets([i \in 1..Len(d2) |-> B64Value[CharAt(d2, i)]])]

\* payload.split(':')[0]: the bytes before the first colon (all of them when
\* there is none).
RECURSIVE FirstField(_)
FirstField(bytes) ==
    IF bytes = <<>> \/ Head(bytes) = 58 THEN <<>>
    ELSE <<Head(bytes)>> \o FirstField(Tail(bytes))

\* The value of a digit's char code in a radix, or -1.
DigitValue(c, radix) ==
    LET v == IF c \in 48..57 THEN c - 48
             ELSE IF c \in 97..122 THEN c - 87
             ELSE IF c \in 65..90 THEN c - 55
             ELSE -1
    IN  IF v >= 0 /\ v < radix THEN v ELSE -1

\* The longest prefix of digits: how many there are and their value.
RECURSIVE DigitPrefix(_, _, _, _)
DigitPrefix(bytes, radix, n, v) ==
    IF bytes = <<>> \/ DigitValue(Head(bytes), radix) < 0 THEN [n |-> n, v |-> v]
    ELSE DigitPrefix(Tail(bytes), radix, n + 1, v * radix + DigitValue(Head(bytes), radix))

RECURSIVE SkipWhite(_)
SkipWhite(bytes) ==
    IF bytes # <<>> /\ Head(bytes) \in {9, 10, 11, 12, 13, 32, 160}
    THEN SkipWhite(Tail(bytes))
    ELSE bytes

\* parseInt(string) with no radix given: white space, a sign, an optional
\* 0x, then the longest run of digits; NaN when there is none.
parseInt(bytes) ==
    LET b1 == SkipWhite(bytes)
        neg == b1 # <<>> /\ Head(b1) = 45
        b2 == IF b1 # <<>> /\ Head(b1) \in {43, 45} THEN Tail(b1) ELSE b1
        hex == Len(b2) >= 2 /\ b2[1] = 48 /\ b2[2] \in {88, 120}
        b3 == IF hex THEN SubSeq(b2, 3, Len(b2)) ELSE b2
        p == DigitPrefix(b3, IF hex THEN 16 ELSE 10, 0, 0)
    IN  IF p.n = 0 THEN [nan |-> TRUE, v |-> 0]
        ELSE [nan |-> FALSE, v |-> IF neg THEN 0 - p.v ELSE p.v]

(***************************************************************************)
(* SecurityManager: CSRF token                                             *)
(***************************************************************************)
\* generateCSRFToken() at clock reading t, Math.random().toString(36)
\* .substring(2, 15) being `random`.
generateCSRFToken(t, random) == btoa(ToString(t) \o ":" \o random)

\* validateCSRFToken refusing a token whose age equals maxAge (>= for >).
validateCSRFToken_AgeInclusive(token, maxAge, t) ==
    LET payload == atob(token)
        timestamp == parseInt(FirstField(payload.bytes))
    IN  IF ~payload.ok
        THEN [ret |-> FALSE, ev |-> <<"CSRF_TOKEN_INVALID">>]
        ELSE IF ~timestamp.nan /\ t - timestamp.v >= maxAge
        THEN [ret |-> FALSE, ev |-> <<"CSRF_TOKEN_EXPIRED">>]
        ELSE [ret |-> TRUE, ev |-> <<>>]

\* validateCSRFToken(token, maxAge) at clock reading t.  A comparison with
\* NaN (tokenAge when parseInt finds no digits) is false.
validateCSRFToken(token, maxAge, t) ==
    LET payload == atob(token)
        timestamp == parseInt(FirstField(payload.bytes))
    IN  IF ~payload.ok
        THEN [ret |-> FALSE, ev |-> <<"CSRF_TOKEN_INVALID">>]
        ELSE IF ~timestamp.nan /\ t - timestamp.v > maxAge
        THEN [ret |-> FALSE, ev |-> <<"CSRF_TOKEN_EXPIRED">>]
        ELSE [ret |-> TRUE, ev |-> <<>>]

(***************************************************************************)
(* SecurityManager: cart item and cart validation                          *)
(***************************************************************************)
DigitChars == CharsOf(Digits)

\* /^gid:\/\/shopify\/Product\/\d+$/.test(s)
IdPattern(s) ==
    LET prefix == "gid://shopify/Product/"
    IN  /\ startsWith(s, prefix)
        /\ Len(s) > Len(prefix)
        /\ \A i \in (Len(prefix) + 1)..Len(s) : CharAt(s, i) \in DigitChars

\* The character class [a-zA-Z0-9\s\-_.,!?()]
TitleChars ==
    CharsOf("abcdefghijklmnopqrstuvwxyzABCDEFGHIJKLMNOPQRSTUVWXYZ0123456789")
        \cup {" ", "\t", "\n", "\f", "\r", "-", "_", ".", ",", "!", "?", "(", ")"}

\* /^[a-zA-Z0-9\s\-_.,!?()]{1,100}$/.test(s)
TitlePattern(s) ==
    /\ Len(s) >= 1
    /\ Len(s) <= 100
    /\ \A i \in 1..Len(s) : CharAt(s, i) \in TitleChars

\* The truthiness of a value (in `a && b ? x : y`).
Truthy(v) ==
    CASE v.t \in {"undefined", "null"} -> FALSE
      [] v.t = "boolean" -> v.b
      [] v.t = "string" -> v.s # ""
      [] v.t = "number" -> ~v.nan /\ Sign(v) # 0
      [] OTHER -> TRUE

\* The five checks of validateCartItem, each on the property it reads.
IdValid(id) == typeof(id) = "string" /\ IdPattern(id.s)

TitleValid(title) == typeof(title) = "string" /\ TitlePattern(title.s)

PriceValid(price) ==
    typeof(price) = "number" /\ Greater(price, Whole(0)) /\ Less(price, Whole(10000))

ImageValid(image) ==
    /\ typeof(image) = "string"
    /\ startsWith(image.s, "https://")
    /\ (includes(image.s, "cdn.shopify.com") \/ includes(image.s, "shopify.com"))

QuantityValid(quantity) ==
    isInteger(quantity) /\ AtLeast(quantity, Whole(1)) /\ AtMost(quantity, Whole(10))

\* validateCartItem(item): threw when reading item.id throws (item null or
\* undefined); otherwise the value returned and the events logged.
validateCartItem(item) ==
    IF ThrowsOnRead(item)
    THEN [threw |-> TRUE, ret |-> Undefined, ev |-> <<>>]
    ELSE IF ~IdValid(Prop(item, "id"))
    THEN [threw |-> FALSE, ret |-> Null, ev |-> <<"INVALID_PRODUCT_ID">>]
    ELSE IF ~TitleValid(Prop(item, "title"))
    THEN [threw |-> FALSE, ret |-> Null, ev |-> <<"INVALID_PRODUCT_TITLE">>]
    ELSE IF ~PriceValid(Prop(item, "price"))
    THEN [threw |-> FALSE, ret |-> Null, ev |-> <<"INVALID_PRODUCT_PRICE">>]
    ELSE IF ~ImageValid(Prop(item, "image"))
    THEN [threw |-> FALSE, ret |-> Null, ev |-> <<"INVALID_PRODUCT_IMAGE">>]
    ELSE IF ~QuantityValid(Prop(item, "quantity"))
    THEN [threw |-> FALSE, ret |-> Null, ev |-> <<"INVALID_PRODUCT_QUANTITY">>]
    ELSE LET validatedItem ==
                 Obj(Prop(item, "id"), Prop(item, "title"), Prop(item, "price"),
                     Prop(item, "image"), Prop(item, "quantity"))
         IN  [threw |-> FALSE,
              ret |-> IF \A p \in ItemProps : Truthy(validatedItem[p])
                      THEN validatedItem ELSE Null,
              ev |-> <<>>]

\* cartItems.map(item => this.validateCartItem(item)): the results up to and
\* including the first call that throws.
RECURSIVE MapValidate(_)
MapValidate(items) ==
    IF items = <<>> THEN <<>>
    ELSE LET r == validateCartItem(Head(items))
         IN  IF r.threw THEN <<r>> ELSE <<r>> \o MapValidate(Tail(items))

RECURSIVE Flatten(_)
Flatten(seqs) == IF seqs = <<>> THEN <<>> ELSE Head(seqs) \o Flatten(Tail(seqs))

CART_MAX_ITEMS == 50

\* validateCart(cartItems): threw with the error's message, or the array
\* returned; and the events logged, in order.
validateCart(cartItems) ==
    IF cartItems.t # "array"
    THEN [threw |-> TRUE, error |-> "Cart must be an array", ret |-> Undefined,
          ev |-> <<"INVALID_CART_FORMAT">>]
    ELSE IF Len(cartItems.a) = 0
    THEN [threw |-> TRUE, error |-> "Cart cannot be empty", ret |-> Undefined,
          ev |-> <<"EMPTY_CART_ATTEMPT">>]
    ELSE IF Len(cartItems.a) > CART_MAX_ITEMS
    THEN [threw |-> TRUE, error |-> "Too many items in cart", ret |-> Undefined,
          ev |-> <<"CART_TOO_LARGE">>]
    ELSE LET results == MapValidate(cartItems.a)
             itemEvents == Flatten([i \in 1..Len(results) |-> results[i].ev])
             validatedItems ==
                 SelectSeq([i \in 1..Len(results) |-> results[i].ret],
                           LAMBDA v : Truthy(v))
         IN  IF results[Len(results)].threw
             THEN [threw |-> TRUE, error |-> "TypeError", ret |-> Undefined,
                   ev |-> itemEvents]
             ELSE IF Len(validatedItems) # Len(cartItems.a)
             THEN [threw |-> TRUE, error |-> "Invalid items detected in cart",
                   ret |-> Undefined,
                   ev |-> itemEvents \o <<"INVALID_ITEMS_IN_CART">>]
             ELSE [threw |-> FALSE, error |-> "", ret |-> Arr(validatedItems),
                   ev |-> itemEvents]

(***************************************************************************)
(* The record of a call: the operation, its arguments, whether it threw,   *)
(* what it returned, the security events it logged and the messages it     *)
(* showed (showSecurityMessage), in order.                                 *)
(***************************************************************************)
Called(op, args, threw, ret, ev, msgs) ==
    [op |-> op, args |-> args, threw |-> threw, ret |-> ret, ev |-> ev,
     msgs |-> msgs]

NoCall == Called("none", <<>>, FALSE, Undefined, <<>>, <<>>)

\* A call about to be made with these arguments.
Pending(op, args) == Called(op, args, FALSE, [t |-> "pending"], <<>>, <<>>)

IsPending == last.ret.t = "pending"

\* The operation names the calls are drawn from: the four the cart store
\* uses, and "check", a prefix of "checkout".
CartOps == {"add-to-cart", "remove-from-cart", "update-quantity", "checkout"}

OpNames == CartOps \cup {"check"}

\* The readings of `accepted` a call at reading t still has in its window.
RECURSIVE InWindow(_, _)
InWindow(readings, t) ==
    IF readings = <<>> THEN <<>>
    ELSE IF Head(readings) < t - RATE_LIMIT_WINDOW THEN InWindow(Tail(readings), t)
    ELSE <<Head(readings)>> \o InWindow(Tail(readings), t)

\* `accepted` after a checkRateLimit(operation) call at reading t returned ret.
Accept(acc, operation, t, ret) ==
    [o \in DOMAIN acc |->
        IF o = operation /\ ret THEN Append(InWindow(acc[o], t), t)
        ELSE InWindow(acc[o], t)]

(***************************************************************************)
(* JSON.stringify, parseFloat                                              *)
(***************************************************************************)
\* What JSON text holds for a property or element value: NaN and the infinities become null;
\* an undefined property is left out (and reads back as Undefined).
JsonOfField(v) == IF v.t = "number" /\ (v.nan \/ v.inf # 0) THEN Null ELSE v

JsonOfElement(v) ==
    IF v.t = "undefined" \/ (v.t = "number" /\ (v.nan \/ v.inf # 0)) THEN Null
    ELSE IF v.t = "object"
    THEN Obj(JsonOfField(v.id), JsonOfField(v.title), JsonOfField(v.price),
             JsonOfField(v.image), JsonOfField(v.quantity))
    ELSE v

\* localStorage.setItem(key, JSON.stringify(v)): the item stored.  For
\* undefined, JSON.stringify returns undefined and the text stored is
\* "undefined", which does not parse.
stringify(v) ==
    IF v.t = "undefined" THEN InvalidJSON
    ELSE IF v.t = "array"
    THEN Json(Arr([i \in 1..Len(v.a) |-> JsonOfElement(v.a[i])]))
    ELSE Json(JsonOfElement(v))

\* The number of characters at the head of s that are in `chars`, and s
\* without its first n characters.
RunLength(s, chars) ==
    CHOOSE n \in 0..Len(s) :
        /\ \A i \in 1..n : CharAt(s, i) \in chars
        /\ n = Len(s) \/ CharAt(s, n + 1) \notin chars

Drop(s, n) == SubSeq(s, n + 1, Len(s))

RECURSIVE DecimalValue(_, _)
DecimalValue(digits, v) ==
    IF Len(digits) = 0 THEN v
    ELSE DecimalValue(SubSeq(digits, 2, Len(digits)),
                      10 * v + CharCode(CharAt(digits, 1)) - 48)

\* The natural number a string of decimal digits writes, by halves.
RECURSIVE BigOfDigits(_)
BigOfDigits(digits) ==
    IF Len(digits) <= 4 THEN BigOf(DecimalValue(digits, 0))
    ELSE BigAdd(MulPow10(BigOfDigits(SubSeq(digits, 1, Len(digits) \div 2)),
                         Len(digits) - (Len(digits) \div 2)),
                BigOfDigits(Drop(digits, Len(digits) \div 2)))

\* The exponent a string of decimal digits writes; one of seven digits or
\* more, its leading zeros apart, is beyond every double either way.
ExponentValue(digits) ==
    With(Drop(digits, RunLength(digits, {"0"})), LAMBDA d :
        IF Len(d) > 6 THEN 999999 ELSE DecimalValue(d, 0))

\* parseFloat(v).  The argument is converted to a string: a number reads
\* back as itself, an array as its first element does (the elements are
\* joined with commas, null and undefined as nothing), anything else that
\* is no string as NaN.  Of a string, the white space at its head is
\* skipped and the longest decimal literal that follows is the value: a
\* sign, then Infinity or digits with a point and an exponent; NaN when no
\* digit is found.
RECURSIVE parseFloat(_)
parseFloat(v) ==
    IF v.t = "number" THEN v
    ELSE IF v.t = "array"
    THEN IF v.a = <<>> \/ v.a[1].t \in {"null", "undefined"} THEN NaN
         ELSE parseFloat(v.a[1])
    ELSE IF v.t # "string" THEN NaN
    ELSE LET s0 == Drop(v.s, RunLength(v.s, AsciiWhitespace))
             signed == Len(s0) > 0 /\ CharAt(s0, 1) \in {"+", "-"}
             sign == IF signed /\ CharAt(s0, 1) = "-" THEN 0 - 1 ELSE 1
             s1 == IF signed THEN Drop(s0, 1) ELSE s0
             whole == SubSeq(s1, 1, RunLength(s1, DigitChars))
             s2 == Drop(s1, Len(whole))
             point == Len(s2) > 0 /\ CharAt(s2, 1) = "."
             frac == IF point
                     THEN SubSeq(s2, 2, 1 + RunLength(Drop(s2, 1), DigitChars))
                     ELSE ""
             s3 == IF point THEN Drop(s2, 1 + Len(frac)) ELSE s2
             hasE == Len(s3) > 0 /\ CharAt(s3, 1) \in {"e", "E"}
             s4 == Drop(s3, 1)
             esigned == hasE /\ Len(s4) > 0 /\ CharAt(s4, 1) \in {"+", "-"}
             s5 == IF esigned THEN Drop(s4, 1) ELSE s4
             edigits == IF hasE THEN SubSeq(s5, 1, RunLength(s5, DigitChars))
                        ELSE ""
             exponent == (IF esigned /\ CharAt(s4, 1) = "-" THEN 0 - 1 ELSE 1)
                             * ExponentValue(edigits)
         IN  IF startsWith(s1, "Infinity") THEN Infinity(sign)
             ELSE IF Len(whole) = 0 /\ Len(frac) = 0 THEN NaN
             ELSE Decimal(sign < 0, BigOfDigits(whole \o frac),
                          Len(frac) - exponent)

(***************************************************************************)
(* The cart store (app.js).  An operation takes the program state it reads *)
(* and writes, S = [rateLimitStore, securityLogs, accepted, cart,          *)
(* storedCart], and gives the state it leaves, with whether it threw, the  *)
(* events it logged and the messages it showed.                            *)
(***************************************************************************)
Out(S, threw, ev, msgs) ==
    [rateLimitStore |-> S.rateLimitStore, securityLogs |-> S.securityLogs,
     accepted |-> S.accepted, cart |-> S.cart, storedCart |-> S.storedCart,
     threw |-> threw, ev |-> ev, msgs |-> msgs]

\* window.cartSecurityManager.checkRateLimit(operation) at reading t.
RateChecked(S, operation, t) ==
    With(checkRateLimit(S.rateLimitStore, operation, t), LAMBDA r :
        [ok |-> r.ret, ev |-> r.ev,
         S |-> [S EXCEPT !.rateLimitStore = r.store,
                         !.securityLogs = LogAll(S.securityLogs, r.ev),
                         !.accepted = Accept(S.accepted, operation, t, r.ret)]])

\* saveCart writing nothing.
saveCart_NotWritten(S) == S

\* saveCart(): localStorage.setItem succeeding.
saveCart(S) == [S EXCEPT !.storedCart = stringify(S.cart)]

\* v.length, for the values a parsed cart can be.
LengthOf(v) ==
    IF v.t = "array" THEN Whole(Len(v.a))
    ELSE IF v.t = "string" THEN Whole(Len(v.s))
    ELSE Undefined

\* loadCart() with window.cartSecurityManager as `manager` ("undefined"
\* until initializeCart stores the reference, after loadCart has run).
loadCart(S, manager) ==
    IF NothingRead(S.storedCart)
    THEN Out([S EXCEPT !.cart = Arr(<<>>)], FALSE, <<>>, <<>>)
    ELSE IF ~S.storedCart.json
    THEN \* JSON.parse throws: the outer catch
         Out([S EXCEPT !.cart = Arr(<<>>)], FALSE, <<>>, <<>>)
    ELSE IF ThrowsOnRead(S.storedCart.v)
    THEN \* cart.length throws: the outer catch
         Out([S EXCEPT !.cart = Arr(<<>>)], FALSE, <<>>, <<>>)
    ELSE IF ~(LengthOf(S.storedCart.v).t = "number"
            /\ Greater(LengthOf(S.storedCart.v), Whole(0)))
    THEN Out([S EXCEPT !.cart = S.storedCart.v], FALSE, <<>>, <<>>)
    ELSE IF manager = "undefined"
    THEN \* reading validateCart of undefined throws: the inner catch
         Out(saveCart([S EXCEPT !.cart = Arr(<<>>)]), FALSE, <<>>, <<>>)
    ELSE With(validateCart(S.storedCart.v), LAMBDA r :
            IF r.threw
            THEN Out(saveCart([S EXCEPT !.securityLogs = LogAll(S.securityLogs, r.ev),
                                        !.cart = Arr(<<>>)]),
                     FALSE, r.ev, <<>>)
            ELSE Out([S EXCEPT !.securityLogs = LogAll(S.securityLogs, r.ev),
                               !.cart = r.ret],
                     FALSE, r.ev, <<>>))

\* The index of the first element of the cart with this id, 0 when none
\* (cart.find(item => item.id === id)).
FindIndex(items, id) ==
    IF \E i \in 1..Len(items) : Prop(items[i], "id") = id
    THEN CHOOSE i \in 1..Len(items) :
            /\ Prop(items[i], "id") = id
            /\ \A j \in 1..(i - 1) : Prop(items[j], "id") # id
    ELSE 0

MAX_QUANTITY == 10

\* addToCart without its search for an item of the same id: every
\* validated item is pushed.
AddValidated_AlwaysPush(S, validatedItem, ev) ==
    IF Len(S.cart.a) >= CART_MAX_ITEMS
    THEN Out(S, FALSE, ev,
             <<"Cart is full. Please remove some items before adding more.">>)
    ELSE Out(saveCart([S EXCEPT !.cart.a = Append(@, validatedItem)]),
             FALSE, ev, <<>>)

\* addToCart raising the quantity of the item it finds whatever it is.
AddValidated_NoQuantityCap(S, validatedItem, ev) ==
    With(FindIndex(S.cart.a, validatedItem.id), LAMBDA i :
        IF i > 0
        THEN Out(saveCart([S EXCEPT !.cart.a[i].quantity = Plus(@, Whole(1))]), FALSE, ev, <<>>)
        ELSE IF Len(S.cart.a) >= CART_MAX_ITEMS
        THEN Out(S, FALSE, ev,
                 <<"Cart is full. Please remove some items before adding more.">>)
        ELSE Out(saveCart([S EXCEPT !.cart.a = Append(@, validatedItem)]),
                 FALSE, ev, <<>>))

\* addToCart refusing a new item only when the cart holds more than 50.
AddValidated_SizeCapOffByOne(S, validatedItem, ev) ==
    With(FindIndex(S.cart.a, validatedItem.id), LAMBDA i :
        IF i > 0
        THEN IF AtLeast(S.cart.a[i].quantity, Whole(MAX_QUANTITY))
             THEN Out(S, FALSE, ev, <<"Maximum quantity (10) reached for this item.">>)
             ELSE Out(saveCart([S EXCEPT !.cart.a[i].quantity = Plus(@, Whole(1))]),
                      FALSE, ev, <<>>)
        ELSE IF Len(S.cart.a) > CART_MAX_ITEMS
        THEN Out(S, FALSE, ev,
                 <<"Cart is full. Please remove some items before adding more.">>)
        ELSE Out(saveCart([S EXCEPT !.cart.a = Append(@, validatedItem)]),
                 FALSE, ev, <<>>))

\* What addToCart does with an item that passed validation, on a cart that
\* is an array: the quantity of the item with its id raised by one, or the
\* item pushed; then saveCart.
AddValidated(S, validatedItem, ev) ==
    With(FindIndex(S.cart.a, validatedItem.id), LAMBDA i :
        IF i > 0
        THEN IF AtLeast(S.cart.a[i].quantity, Whole(MAX_QUANTITY))
             THEN Out(S, FALSE, ev, <<"Maximum quantity (10) reached for this item.">>)
             ELSE Out(saveCart([S EXCEPT !.cart.a[i].quantity = Plus(@, Whole(1))]),
                      FALSE, ev, <<>>)
        ELSE IF Len(S.cart.a) >= CART_MAX_ITEMS
        THEN Out(S, FALSE, ev,
                 <<"Cart is full. Please remove some items before adding more.">>)
        ELSE Out(saveCart([S EXCEPT !.cart.a = Append(@, validatedItem)]),
                 FALSE, ev, <<>>))

\* addToCart(productId, productTitle, productPrice, productImage) at
\* reading t.
addToCart(S, productId, productTitle, productPrice, productImage, t) ==
    With(RateChecked(S, "add-to-cart", t), LAMBDA rc :
        IF ~rc.ok
        THEN Out(rc.S, FALSE, rc.ev,
                 <<"Rate limit exceeded. Please wait before adding more items.">>)
        ELSE With(validateCartItem(Obj(productId, productTitle,
                                       parseFloat(productPrice), productImage,
                                       Whole(1))), LAMBDA v :
             With([rc.S EXCEPT !.securityLogs = LogAll(rc.S.securityLogs, v.ev)],
                  LAMBDA S1 :
                IF ~Truthy(v.ret)
                THEN Out(S1, FALSE, rc.ev \o v.ev,
                         <<"Invalid product data. Please refresh and try again.">>)
                ELSE IF S1.cart.t # "array"
                THEN \* cart.find is not a function
                     Out(S1, TRUE, rc.ev \o v.ev, <<>>)
                ELSE AddValidated(S1, v.ret, rc.ev \o v.ev))))

\* removeFromCart filtering and saving before it asks the rate limiter.
removeFromCart_FilterBeforeCheck(S, productId, t) ==
    With(RateChecked(S, "remove-from-cart", t), LAMBDA rc :
        IF rc.S.cart.t # "array" THEN Out(rc.S, TRUE, rc.ev, <<>>)
        ELSE With(saveCart([rc.S EXCEPT !.cart.a =
                     SelectSeq(@, LAMBDA item : Prop(item, "id") # productId)]),
                  LAMBDA S1 :
                IF ~rc.ok
                THEN Out(S1, FALSE, rc.ev,
                         <<"Rate limit exceeded. Please wait before removing more items.">>)
                ELSE Out(S1, FALSE, rc.ev, <<>>)))

\* removeFromCart(productId) at reading t.
removeFromCart(S, productId, t) ==
    With(RateChecked(S, "remove-from-cart", t), LAMBDA rc :
        IF ~rc.ok
        THEN Out(rc.S, FALSE, rc.ev,
                 <<"Rate limit exceeded. Please wait before removing more items.">>)
        ELSE IF rc.S.cart.t # "array"
        THEN \* cart.filter is not a function
             Out(rc.S, TRUE, rc.ev, <<>>)
        ELSE Out(saveCart([rc.S EXCEPT !.cart.a =
                              SelectSeq(@, LAMBDA item : Prop(item, "id") # productId)]),
                 FALSE, rc.ev, <<>>))

\* updateCartQuantity taking 11 for a quantity.
updateCartQuantity_AllowsEleven(S, productId, newQuantity, t, t2) ==
    With(RateChecked(S, "update-quantity", t), LAMBDA rc :
        IF ~rc.ok
        THEN Out(rc.S, FALSE, rc.ev,
                 <<"Rate limit exceeded. Please wait before updating quantities.">>)
        ELSE IF ~isInteger(newQuantity) \/ Less(newQuantity, Whole(0))
                \/ Greater(newQuantity, Whole(MAX_QUANTITY + 1))
        THEN Out(rc.S, FALSE, rc.ev, <<"Invalid quantity. Must be between 0 and 10.">>)
        ELSE IF rc.S.cart.t # "array" THEN Out(rc.S, TRUE, rc.ev, <<>>)
        ELSE With(FindIndex(rc.S.cart.a, productId), LAMBDA i :
                IF i = 0 THEN Out(rc.S, FALSE, rc.ev, <<>>)
                ELSE IF AtMost(newQuantity, Whole(0))
                THEN With(removeFromCart(rc.S, productId, t2), LAMBDA removed :
                        [removed EXCEPT !.ev = rc.ev \o @])
                ELSE Out(saveCart([rc.S EXCEPT !.cart.a[i].quantity = newQuantity]),
                         FALSE, rc.ev, <<>>)))

\* updateCartQuantity(productId, newQuantity) at reading t; the
\* removeFromCart it calls for a quantity of 0 reads the clock again, at t2.
updateCartQuantity(S, productId, newQuantity, t, t2) ==
    With(RateChecked(S, "update-quantity", t), LAMBDA rc :
        IF ~rc.ok
        THEN Out(rc.S, FALSE, rc.ev,
                 <<"Rate limit exceeded. Please wait before updating quantities.">>)
        ELSE IF ~isInteger(newQuantity) \/ Less(newQuantity, Whole(0))
                \/ Greater(newQuantity, Whole(MAX_QUANTITY))
        THEN Out(rc.S, FALSE, rc.ev, <<"Invalid quantity. Must be between 0 and 10.">>)
        ELSE IF rc.S.cart.t # "array"
        THEN \* cart.find is not a function
             Out(rc.S, TRUE, rc.ev, <<>>)
        ELSE With(FindIndex(rc.S.cart.a, productId), LAMBDA i :
                IF i = 0 THEN Out(rc.S, FALSE, rc.ev, <<>>)
                ELSE IF AtMost(newQuantity, Whole(0))
                THEN With(removeFromCart(rc.S, productId, t2), LAMBDA removed :
                        [removed EXCEPT !.ev = rc.ev \o @])
                ELSE Out(saveCart([rc.S EXCEPT !.cart.a[i].quantity = newQuantity]),
                         FALSE, rc.ev, <<>>)))

\* proceedToCheckout() at reading t, window.shopify being available or not.
proceedToCheckout(S, shopifyAvailable, t) ==
    IF LengthOf(S.cart) = Whole(0)
    THEN Out(S, FALSE, <<>>, <<"Your cart is empty!">>)
    ELSE With(RateChecked(S, "checkout", t), LAMBDA rc :
        IF ~rc.ok
        THEN Out(rc.S, FALSE, rc.ev,
                 <<"Rate limit exceeded. Please wait before checking out.">>)
        ELSE With(validateCart(rc.S.cart), LAMBDA v :
             With([rc.S EXCEPT !.securityLogs = LogAll(rc.S.securityLogs, v.ev)],
                  LAMBDA S1 :
                IF v.threw
                THEN Out(S1, FALSE, rc.ev \o v.ev,
                         <<"Cart validation failed. Please refresh and try again.">>)
                ELSE IF shopifyAvailable
                THEN Out(S1, FALSE, rc.ev \o v.ev,
                         <<"Processing checkout with Shopify...">>)
                ELSE Out(S1, FALSE, rc.ev \o v.ev,
                         <<"Shopify checkout not available. Using local checkout.">>))))

(***************************************************************************)
(* The checkout page: MockShopCart (build.js) and PerformanceCheckout      *)
(* (unnamed/part_002).  A cart item is an object held by reference: `heap` *)
(* gives the object behind each reference, and an array of items is the    *)
(* sequence of its references.  An operation takes the page state          *)
(* P = [heap, mockCart, mockShopCart, checkout, performanceCart, modal,    *)
(* inFlight, threw, msgs] and gives the state it leaves, with whether it   *)
(* threw and the notifications it showed (showNotification), in order.     *)
(***************************************************************************)
checkoutVars ==
    <<heap, mockCart, mockShopCart, checkout, performanceCart, modal, inFlight>>

\* The objects an array of references holds.
ItemsOf(h, refs) == [i \in 1..Len(refs) |-> h[refs[i]]]

\* showNotification(message).
Notified(P, message) == [P EXCEPT !.msgs = Append(@, message)]

\* String.prototype.trim.
RECURSIVE trim(_)
trim(s) ==
    IF Len(s) > 0 /\ CharAt(s, 1) \in AsciiWhitespace
    THEN trim(SubSeq(s, 2, Len(s)))
    ELSE IF Len(s) > 0 /\ CharAt(s, Len(s)) \in AsciiWhitespace
    THEN trim(SubSeq(s, 1, Len(s) - 1))
    ELSE s

\* MockShopCart.validateCartItem(item): null, or a new item object, its
\* quantity 1 unless the argument carries an integer of 1 or more.
MockShopCart_validateCartItem(item) ==
    IF ~Truthy(item) \/ typeof(item) # "object" THEN Null
    ELSE IF ~Truthy(Prop(item, "id")) \/ typeof(Prop(item, "id")) # "string"
    THEN Null
    ELSE IF ~Truthy(Prop(item, "title")) \/ typeof(Prop(item, "title")) # "string"
    THEN Null
    ELSE IF ~Truthy(Prop(item, "price")) \/ typeof(Prop(item, "price")) # "number"
    THEN Null
    ELSE Obj(item.id, Str(trim(item.title.s)), item.price,
             IF Truthy(item.image) THEN item.image ELSE Str("/placeholder.jpg"),
             IF ~Truthy(item.quantity) \/ ~isInteger(item.quantity)
                \/ Less(item.quantity, Whole(1))
             THEN Whole(1) ELSE item.quantity)

\* MockShopCart.saveCartToStorage().
MockShopCart_saveCartToStorage(P) ==
    [P EXCEPT !.mockShopCart = stringify(Arr(ItemsOf(P.heap, P.mockCart)))]

\* MockShopCart.addToCart(productData): the quantity is added to the item
\* object the cart already holds for this id, or a new object is pushed.
MockShopCart_addToCart(P, productData) ==
    With(MockShopCart_validateCartItem(productData), LAMBDA validatedItem :
        IF validatedItem = Null THEN Notified(P, "Invalid product data")
        ELSE With(FindIndex(ItemsOf(P.heap, P.mockCart), validatedItem.id),
                  LAMBDA existing :
            Notified(
                MockShopCart_saveCartToStorage(
                    IF existing > 0
                    THEN [P EXCEPT !.heap[P.mockCart[existing]].quantity =
                                       Plus(@, validatedItem.quantity)]
                    ELSE [P EXCEPT !.heap = Append(@, validatedItem),
                                   !.mockCart = Append(@, Len(P.heap) + 1)]),
                "Added \"" \o validatedItem.title.s \o "\" to cart!")))

\* MockShopCart.updateQuantity(itemId, newQuantity): the item of this id is
\* spliced out of the array when newQuantity <= 0, else its object's
\* quantity is assigned; nothing is done for an id the cart lacks.
MockShopCart_updateQuantity(P, itemId, newQuantity) ==
    With(FindIndex(ItemsOf(P.heap, P.mockCart), itemId), LAMBDA itemIndex :
        IF itemIndex = 0 THEN P
        ELSE IF AtMost(newQuantity, Whole(0))
        THEN MockShopCart_saveCartToStorage(
                 Notified([P EXCEPT !.mockCart =
                               SubSeq(@, 1, itemIndex - 1)
                                   \o SubSeq(@, itemIndex + 1, Len(@))],
                          "Item removed from cart"))
        ELSE MockShopCart_saveCartToStorage(
                 [P EXCEPT !.heap[P.mockCart[itemIndex]].quantity = newQuantity]))

\* MockShopCart.removeItem(itemId): a new array without the items of this id.
MockShopCart_removeItem(P, itemId) ==
    Notified(
        MockShopCart_saveCartToStorage(
            [P EXCEPT !.mockCart =
                SelectSeq(@, LAMBDA ref : P.heap[ref].id # itemId)]),
        "Item removed from cart")

\* PerformanceCheckout.saveCartToStorage().
PerformanceCheckout_saveCartToStorage(P) ==
    [P EXCEPT !.performanceCart =
                  stringify(Arr(ItemsOf(P.heap, P.checkout.localCart)))]

\* PerformanceCheckout.receiveCartData(cartData), cartData an array: a new
\* array of the same item objects, saved.
receiveCartData(P, cartData) ==
    PerformanceCheckout_saveCartToStorage([P EXCEPT !.checkout.localCart = cartData])

\* The modal in the document, its complete button as the HTML creates it.
OpenModal == [open |-> TRUE, disabled |-> FALSE]

NoModal == [open |-> FALSE, disabled |-> FALSE]

\* PerformanceCheckout.showCustomCheckoutModal(): the modal already in the
\* document is shown again, else a new one is created.
showCustomCheckoutModal(P) ==
    IF P.modal.open THEN P ELSE [P EXCEPT !.modal = OpenModal]

\* PerformanceCheckout.proceedToCheckout().
PerformanceCheckout_proceedToCheckout(P) ==
    IF Len(P.checkout.localCart) = 0 THEN Notified(P, "Cart is empty")
    ELSE showCustomCheckoutModal(P)

\* PerformanceCheckout.validateCartItem(item): null, or a new item object
\* with the quantity and image of the argument where these are truthy.
PerformanceCheckout_validateCartItem(item) ==
    IF ~Truthy(item) \/ typeof(item) # "object" THEN Null
    ELSE IF ~Truthy(Prop(item, "id")) \/ ~Truthy(Prop(item, "title"))
            \/ typeof(Prop(item, "price")) # "number"
    THEN Null
    ELSE Obj(item.id, Str(trim(item.title.s)), item.price,
             IF Truthy(item.image) THEN item.image ELSE Str("/placeholder.jpg"),
             IF Truthy(item.quantity) THEN item.quantity ELSE Whole(1))

\* PerformanceCheckout.addToCart(productData), also what the global
\* function addToCart(productData) of the checkout script does with an
\* object: nothing for an item that does not validate; item.title.trim()
\* throws for a title that is no string; else the quantity is added to the
\* item object the checkout's cart holds for this id, or a new object is
\* pushed, and the cart is saved under 'performanceCart'.
PerformanceCheckout_addToCart(P, productData) ==
    IF Truthy(productData) /\ typeof(productData) = "object"
       /\ Truthy(Prop(productData, "id")) /\ Truthy(Prop(productData, "title"))
       /\ typeof(Prop(productData, "price")) = "number"
       /\ typeof(Prop(productData, "title")) # "string"
    THEN [P EXCEPT !.threw = TRUE]
    ELSE With(PerformanceCheckout_validateCartItem(productData),
              LAMBDA validatedItem :
        IF validatedItem = Null THEN P
        ELSE With(FindIndex(ItemsOf(P.heap, P.checkout.localCart), validatedItem.id),
                  LAMBDA existing :
            Notified(
                PerformanceCheckout_saveCartToStorage(
                    IF existing > 0
                    THEN [P EXCEPT !.heap[P.checkout.localCart[existing]].quantity =
                                       Plus(@, validatedItem.quantity)]
                    ELSE [P EXCEPT !.heap = Append(@, validatedItem),
                                   !.checkout.localCart = Append(@, Len(P.heap) + 1)]),
                "Added \"" \o validatedItem.title.s \o "\" to cart!")))

\* MockShopCart.proceedToCheckout(), window.checkout being there or not.
MockShopCart_proceedToCheckout(P, checkoutAvailable) ==
    IF Len(P.mockCart) = 0 THEN Notified(P, "Cart is empty")
    ELSE IF checkoutAvailable
    THEN PerformanceCheckout_proceedToCheckout(receiveCartData(P, P.mockCart))
    ELSE Notified(P, "Checkout system not available")

\* The fields validateCustomerInfo requires, in its order.
required ==
    <<"email", "firstName", "lastName", "address", "city", "state", "zip",
      "country">>

\* formData.get(field): the value of the first entry of that name, null
\* (here "") when the form has none.
FormGet(form, field) ==
    IF \E i \in 1..Len(form) : form[i][1] = field
    THEN form[CHOOSE i \in 1..Len(form) :
                 /\ form[i][1] = field
                 /\ \A j \in 1..(i - 1) : form[j][1] # field][2]
    ELSE ""

\* PerformanceCheckout.validateCustomerInfo(), `form` the entries of
\* #customerInfoForm: new FormData(null) throws when the modal is not in
\* the document; the first required field with an empty value is reported;
\* else the entries become customerInfo.
validateCustomerInfo(P, form) ==
    IF ~P.modal.open THEN [ok |-> FALSE, P |-> [P EXCEPT !.threw = TRUE]]
    ELSE LET missing == {i \in 1..Len(required) : FormGet(form, required[i]) = ""}
         IN  IF missing # {}
             THEN [ok |-> FALSE,
                   P |-> Notified(P, required[CHOOSE i \in missing :
                                         \A j \in missing : i <= j]
                                     \o " is required")]
             ELSE [ok |-> TRUE, P |-> [P EXCEPT !.checkout.customerInfo = form]]

\* PerformanceCheckout.nextStep().
nextStep(P, form) ==
    CASE P.checkout.checkoutStep = "cart" ->
             [P EXCEPT !.checkout.checkoutStep = "info"]
      [] P.checkout.checkoutStep = "info" ->
             With(validateCustomerInfo(P, form), LAMBDA v :
                 IF v.ok THEN [v.P EXCEPT !.checkout.checkoutStep = "payment"]
                 ELSE v.P)
      [] OTHER -> P

\* PerformanceCheckout.previousStep().
previousStep(P) ==
    CASE P.checkout.checkoutStep = "info" ->
             [P EXCEPT !.checkout.checkoutStep = "cart"]
      [] P.checkout.checkoutStep = "payment" ->
             [P EXCEPT !.checkout.checkoutStep = "info"]
      [] OTHER -> P

\* PerformanceCheckout.closeCustomCheckout(): the modal leaves the document
\* (and with it the button a completeOrder in flight holds).
closeCustomCheckout(P) ==
    [P EXCEPT !.modal = NoModal,
              !.checkout.checkoutStep = "cart",
              !.inFlight = [i \in 1..Len(@) |-> [completeBtn |-> "detached"]]]

\* PerformanceCheckout.continueShopping().
continueShopping(P) == closeCustomCheckout(P)

\* The reduce of calculateSubtotal: sum + item.price * item.quantity over
\* the items in their order, from 0.
RECURSIVE SumOf(_)
SumOf(items) ==
    IF items = <<>> THEN Whole(0)
    ELSE Plus(SumOf(SubSeq(items, 1, Len(items) - 1)),
              Times(items[Len(items)].price, items[Len(items)].quantity))

\* PerformanceCheckout.calculateSubtotal().
calculateSubtotal(P) == SumOf(ItemsOf(P.heap, P.checkout.localCart))

\* The tax rate of calculateTotal, in per cent.
TAX_PERCENT == 8

\* PerformanceCheckout.calculateTotal(): subtotal + subtotal * 0.08.
calculateTotal(P) ==
    With(calculateSubtotal(P), LAMBDA subtotal :
        Plus(subtotal, Times(subtotal, Dec(TAX_PERCENT, 2))))

MS_PER_DAY == 24 * 60 * 60 * 1000

\* PerformanceCheckout.completeOrder() up to its await: a TypeError when no
\* complete button is in the document; else the button is disabled and
\* simulateOrderProcessing starts its timer.
completeOrder(P) ==
    IF ~P.modal.open THEN [P EXCEPT !.threw = TRUE]
    ELSE [P EXCEPT !.modal.disabled = TRUE,
                   !.inFlight = Append(@, [completeBtn |-> "document"])]

\* simulateOrderProcessing() after its timer, at reading t, `random` the
\* characters Math.random().toString(36).substr(2, 9) gives: orderData.
simulateOrderProcessing(P, random, t) ==
    [P EXCEPT !.checkout.orderData =
        [t |-> "order",
         orderNumber |-> "#" \o random,
         date |-> t \div MS_PER_DAY,
         items |-> P.checkout.localCart,
         customer |-> P.checkout.customerInfo,
         total |-> calculateTotal(P)]]

\* completeOrder after `await this.simulateOrderProcessing()`, for the call
\* longest in flight: the step becomes confirmation;
\* populateOrderConfirmation throws when #orderDetails is not in the
\* document, and then the catch reports the failure and enables the button
\* the call holds; else the cart is emptied and saved.
AfterProcessing(P) ==
    IF ~P.modal.open
    THEN Notified([P EXCEPT !.checkout.checkoutStep = "confirmation",
                            !.modal.disabled =
                                IF Head(P.inFlight).completeBtn = "document"
                                THEN FALSE ELSE @,
                            !.inFlight = Tail(@)],
                  "Order failed. Please try again.")
    ELSE PerformanceCheckout_saveCartToStorage(
             [P EXCEPT !.checkout.checkoutStep = "confirmation",
                       !.checkout.localCart = <<>>,
                       !.inFlight = Tail(@)])

\* The page after new MockShopCart() and new PerformanceCheckout() with
\* nothing in localStorage.
ConstructedPage ==
    [heap |-> <<>>, mockCart |-> <<>>, mockShopCart |-> NoItem,
     checkout |-> [localCart |-> <<>>, checkoutStep |-> "cart",
                   customerInfo |-> <<>>, orderData |-> Undefined],
     performanceCart |-> NoItem, modal |-> NoModal, inFlight |-> <<>>,
     threw |-> FALSE, msgs |-> <<>>]

\* The page variables hold the page state P.
PageIs(P) ==
    /\ heap = P.heap
    /\ mockCart = P.mockCart
    /\ mockShopCart = P.mockShopCart
    /\ checkout = P.checkout
    /\ performanceCart = P.performanceCart
    /\ modal = P.modal
    /\ inFlight = P.inFlight

(***************************************************************************)
(* SecurityManager: sanitizeHTML, sanitizeInput                            *)
(***************************************************************************)
UpperCase == "ABCDEFGHIJKLMNOPQRSTUVWXYZ"

LowerCase == "abcdefghijklmnopqrstuvwxyz"

\* String.prototype.toLowerCase, on ASCII text.
RECURSIVE toLowerCase(_)
toLowerCase(s) ==
    IF Len(s) = 0 THEN ""
    ELSE IF Len(s) = 1
    THEN IF s \in CharsOf(UpperCase)
         THEN CharAt(LowerCase, IndexIn(UpperCase, s)) ELSE s
    ELSE With(toLowerCase(SubSeq(s, 1, Len(s) \div 2)), LAMBDA left :
            left \o toLowerCase(SubSeq(s, Len(s) \div 2 + 1, Len(s))))

\* s.substring(0, end)
substring(s, end) == IF Len(s) <= end THEN s ELSE SubSeq(s, 1, end)

\* sanitizeHTML(str): the text set as a div's textContent and read back as
\* its innerHTML, which writes &, < and > of a text node as entities.
RECURSIVE sanitizeHTML(_)
sanitizeHTML(str) ==
    IF Len(str) = 0 THEN ""
    ELSE IF Len(str) = 1
    THEN IF str = "&" THEN "&amp;"
         ELSE IF str = "<" THEN "&lt;"
         ELSE IF str = ">" THEN "&gt;"
         ELSE str
    ELSE With(sanitizeHTML(SubSeq(str, 1, Len(str) \div 2)), LAMBDA left :
            left \o sanitizeHTML(SubSeq(str, Len(str) \div 2 + 1, Len(str))))

SANITIZE_MAX_LENGTH == 100

SANITIZE_MAX_NUMBER == 999999

\* sanitizeInput(input, type)
sanitizeInput(input, type) ==
    IF typeof(input) # "string" THEN Str("")
    ELSE IF type = "text"
    THEN Str(sanitizeHTML(substring(trim(input.s), SANITIZE_MAX_LENGTH)))
    ELSE IF type = "email"
    THEN Str(substring(toLowerCase(trim(input.s)), SANITIZE_MAX_LENGTH))
    ELSE IF type = "number"
    THEN With(parseFloat(input), LAMBDA num :
            IF num.nan THEN Whole(0)
            ELSE IF Greater(num, Whole(SANITIZE_MAX_NUMBER))
            THEN Whole(SANITIZE_MAX_NUMBER)
            ELSE IF Less(num, Whole(0)) THEN Whole(0)
            ELSE num)
    ELSE Str(sanitizeHTML(trim(input.s)))

(***************************************************************************)
(* The rate limiter on its own: calls of checkRateLimit at clock readings  *)
(* that never go back.                                                     *)
(***************************************************************************)
MaxTicks == 11

MaxLogged == 2

RateOps == {"checkout", "check"}

LogLen == IF NothingRead(securityLogs) \/ ~securityLogs.json THEN 0
          ELSE IF securityLogs.v.t = "array" THEN Len(securityLogs.v.a) ELSE 0

\* What Math.random().toString(36).substring(2, 15) may give: up to 13
\* characters of 0-9a-z, none when Math.random() returns 0.
Nonces == {"", "4fzyo82mvyr"}

\* A page whose script has just constructed its SecurityManager, at clock
\* reading 0, with nothing in localStorage.
InitManager ==
    /\ now = 0
    /\ csrfToken \in {generateCSRFToken(0, random) : random \in Nonces}
    /\ rateLimitStore = <<>>
    /\ securityLogs = NoItem
    /\ cart = Arr(<<>>)
    /\ storedCart = NoItem
    /\ cartSecurityManager = "undefined"
    /\ last = NoCall
    /\ accepted = [o \in OpNames |-> <<>>]
    /\ PageIs(ConstructedPage)

\* A call of checkRateLimit for one of `ops`, the clock having advanced by
\* one of `steps` since the last reading.
CheckRateLimitCall(ops, steps) ==
    \E operation \in ops, d \in steps :
        LET t == now + d
            r == checkRateLimit(rateLimitStore, operation, t)
        IN  /\ t <= MaxTicks + RATE_LIMIT_WINDOW
            /\ t % RATE_LIMIT_WINDOW <= MaxTicks
            /\ LogLen < MaxLogged
            /\ Len(accepted[operation]) <= RATE_LIMIT_MAX
            /\ now' = t
            /\ rateLimitStore' = r.store
            /\ securityLogs' = LogAll(securityLogs, r.ev)
            /\ accepted' = Accept(accepted, operation, t, r.ret)
            /\ last' = Called("checkRateLimit", <<Str(operation)>>, FALSE,
                               Bool(r.ret), r.ev, <<>>)
            /\ UNCHANGED <<csrfToken, cart, storedCart, cartSecurityManager>>
            /\ UNCHANGED checkoutVars

\* Two operations, every call at a later millisecond than the one before,
\* or a window later.
NextRate == CheckRateLimitCall(RateOps, {1, RATE_LIMIT_WINDOW})

SpecRate == InitManager /\ [][NextRate]_vars

\* One operation, calls in the same millisecond or the next.
NextBurst == CheckRateLimitCall({"checkout"}, {0, 1})

SpecBurst == InitManager /\ [][NextBurst]_vars

(***************************************************************************)
(* The CSRF token: managers constructed and tokens verified as the clock   *)
(* moves through the readings around the default maximum age.              *)
(***************************************************************************)
CSRF_MAX_AGE == 3600000

MaxSkew == 2

CsrfReading(t) ==
    t \in 0..MaxSkew \/ t \in (CSRF_MAX_AGE - 1)..(CSRF_MAX_AGE + MaxSkew)

CsrfSteps == {0, 1, CSRF_MAX_AGE - 1}

\* The maxAge a caller passes: none (the default) or one millisecond.
MaxAges == {CSRF_MAX_AGE, 1}

\* Tokens no generateCSRFToken call produced: not base64, base64 of a text
\* with no timestamp, base64 of an empty timestamp, the empty string, and a
\* text with a letter after the digits.
ForeignTokens ==
    {"invalid-token", btoa("hello"), btoa(":4fzyo82mvyr"), "", "a",
     btoa("12abc:4fzyo82mvyr")}

\* new SecurityManager(): a fresh token and an empty rate-limit store.
NewSecurityManager ==
    \E d \in CsrfSteps, random \in Nonces :
        /\ CsrfReading(now + d)
        /\ now' = now + d
        /\ csrfToken' = generateCSRFToken(now + d, random)
        /\ rateLimitStore' = <<>>
        /\ accepted' = [o \in OpNames |-> <<>>]
        /\ last' = Called("SecurityManager", <<>>, FALSE, Undefined, <<>>, <<>>)
        /\ UNCHANGED <<securityLogs, cart, storedCart, cartSecurityManager>>
        /\ UNCHANGED checkoutVars

ValidateCSRFTokenCall ==
    \E d \in CsrfSteps, token \in {csrfToken} \cup ForeignTokens, maxAge \in MaxAges :
        LET t == now + d
            r == validateCSRFToken(token, maxAge, t)
        IN  /\ CsrfReading(t)
            /\ LogLen < MaxLogged
            /\ now' = t
            /\ securityLogs' = LogAll(securityLogs, r.ev)
            /\ last' = Called("validateCSRFToken", <<Str(token), Whole(maxAge)>>, FALSE,
                               Bool(r.ret), r.ev, <<>>)
            /\ UNCHANGED <<csrfToken, rateLimitStore, accepted, cart, storedCart,
                           cartSecurityManager>>
            /\ UNCHANGED checkoutVars

NextCsrf == NewSecurityManager \/ ValidateCSRFTokenCall

SpecCsrf == InitManager /\ [][NextCsrf]_vars

(***************************************************************************)
(* validateCartItem on its own: one call for each candidate.               *)
(***************************************************************************)
RECURSIVE Repeat(_, _)
Repeat(c, n) ==
    IF n = 0 THEN ""
    ELSE IF n = 1 THEN c
    ELSE With(Repeat(c, n \div 2), LAMBDA half :
            half \o half \o (IF n % 2 = 1 THEN c ELSE ""))

CandidateIds ==
    {Str("gid://shopify/Product/1"), Str("gid://shopify/Product/1234567890"),
     Str("abc"), Str("gid://shopify/Product/"), Str("gid://shopify/Product/12x"),
     Whole(1), Undefined}

CandidateTitles ==
    {Str("Green Hoodie"), Str("Test Product"), Str(""),
     Str("<script>alert(1)</script>"), Str(Repeat("a", 100)), Str(Repeat("a", 101)),
     Undefined}

\* 29.99, 25, 0.01, 9999.99, 0, 10000, -10, NaN and the string "29.99".
CandidatePrices ==
    {Num(2999), Whole(25), Num(1), Num(999999), Whole(0), Whole(10000),
     Whole(-10), NaN, Str("29.99")}

CandidateImages ==
    {Str("https://cdn.shopify.com/x.jpg"),
     Str("https://cdn.shopify.com/s/files/1/123/test.jpg"),
     Str("http://cdn.shopify.com/x.jpg"),
     Str("https://evil.example/shopify.com.jpg"),
     Str("https://evil.example/x.jpg"),
     Str("javascript:alert(1)"), Undefined}

\* 1, 10, 0, 11, -1, 1.5, the string "1" and no quantity.
CandidateQuantities ==
    {Whole(1), Whole(10), Whole(0), Whole(11), Whole(-1), Num(150), Str("1"),
     Undefined}

CandidateItems ==
    {Obj(id, title, price, image, quantity) :
        id \in CandidateIds, title \in CandidateTitles, price \in CandidatePrices,
        image \in CandidateImages, quantity \in CandidateQuantities}
    \cup {Null, Undefined, Whole(5), Str("item"), Arr(<<>>)}

InitItem ==
    /\ now = 0
    /\ csrfToken \in {generateCSRFToken(0, random) : random \in Nonces}
    /\ rateLimitStore = <<>>
    /\ securityLogs = NoItem
    /\ cart = Arr(<<>>)
    /\ storedCart = NoItem
    /\ cartSecurityManager = "undefined"
    /\ accepted = [o \in OpNames |-> <<>>]
    /\ last \in {Pending("validateCartItem", <<item>>) : item \in CandidateItems}
    /\ PageIs(ConstructedPage)

ValidateCartItemCall ==
    /\ last.op = "validateCartItem"
    /\ IsPending
    /\ LET r == validateCartItem(last.args[1])
       IN  /\ securityLogs' = LogAll(securityLogs, r.ev)
           /\ last' = Called("validateCartItem", last.args, r.threw, r.ret, r.ev, <<>>)
    /\ UNCHANGED <<now, csrfToken, rateLimitStore, accepted, cart, storedCart,
                   cartSecurityManager>>
    /\ UNCHANGED checkoutVars

NextItem == ValidateCartItemCall

SpecItem == InitItem /\ [][NextItem]_vars

(***************************************************************************)
(* The cart store in a page: DOMContentLoaded, the four cart operations    *)
(* called from the page's buttons, and the page being reloaded.            *)
(***************************************************************************)
MaxCartCalls == 2

NestedSteps == {0, 1}

ProductId(n) == "gid://shopify/Product/" \o ToString(n)

CdnImage == "https://cdn.shopify.com/s/files/1/123/test.jpg"

\* An image that is not on a Shopify host and has "shopify.com" in its path.
MirrorImage == "https://evil.example/shopify.com.jpg"

\* The id of a product no run below puts in the cart.
OtherId == CART_MAX_ITEMS + 1

\* What the page's buttons pass to addToCart: two products with images on
\* the CDN (the price of one a string, of the other a number), one with
\* markup in its title, one with an image on another host.
Products ==
    { <<Str(ProductId(1)), Str("Green Hoodie"), Str("29.99"), Str(CdnImage)>>,
      <<Str(ProductId(OtherId)), Str("Test Product"), Whole(25), Str(CdnImage)>>,
      <<Str(ProductId(OtherId + 1)), Str("<b>Hat</b>"), Str("19.99"), Str(CdnImage)>>,
      <<Str(ProductId(OtherId + 2)), Str("Mirror Hat"), Str("19.99"), Str(MirrorImage)>> }

HoodieArgs == <<Str(ProductId(1)), Str("Green Hoodie"), Str("29.99"), Str(CdnImage)>>

CartIds == {Str(ProductId(1)), Str(ProductId(OtherId))}

NewQuantities == {Whole(0), Whole(10), Whole(11), Whole(0 - 1), Num(150)}

StoredItem(n, quantity) ==
    Obj(Str(ProductId(n)), Str("Test Product"), Whole(25), Str(CdnImage), quantity)

\* What localStorage can hold under the cart's key when the page loads:
\* nothing, what saveCart wrote, or anything written by other means.
PersistedCarts ==
    { NoItem, InvalidJSON, EmptyText, Json(Null), Json(EmptyObj), Json(Whole(5)),
      Json(Str("")), Json(Str("cart")), Json(Arr(<<>>)),
      Json(Arr(<<StoredItem(1, Whole(1))>>)),
      Json(Arr(<<StoredItem(1, Whole(99))>>)),
      Json(Arr(<<StoredItem(1, Whole(1)), StoredItem(1, Whole(2))>>)),
      Json(Arr(<<Null>>)),
      Json(Arr([i \in 1..(CART_MAX_ITEMS + 1) |-> StoredItem(i, Whole(1))])) }

\* The program state the cart operations read and write.
Cur ==
    [rateLimitStore |-> rateLimitStore, securityLogs |-> securityLogs,
     accepted |-> accepted, cart |-> cart, storedCart |-> storedCart]

StateOf(r) ==
    [rateLimitStore |-> r.rateLimitStore, securityLogs |-> r.securityLogs,
     accepted |-> r.accepted, cart |-> r.cart, storedCart |-> r.storedCart]

\* A page just loaded on empty storage.
FreshState ==
    [rateLimitStore |-> <<>>, securityLogs |-> NoItem,
     accepted |-> [o \in OpNames |-> <<>>], cart |-> Arr(<<>>),
     storedCart |-> NoItem]

\* The reading of the clock the runs below end at and the page is opened at.
\* The time between two adds of a run that fills the cart: a little more
\* than a tenth of the window, so that the rate limiter lets each through.
FillGap == RATE_LIMIT_WINDOW \div RATE_LIMIT_MAX + 1

CartStart == CART_MAX_ITEMS * FillGap + RATE_LIMIT_WINDOW + 1

\* One call of an operation that is let through: the hoodie added, a
\* product that is not in the cart removed, the hoodie's quantity set,
\* the cart checked out.
BurstCall(S, operation, t) ==
    CASE operation = "add-to-cart" ->
            addToCart(S, HoodieArgs[1], HoodieArgs[2], HoodieArgs[3], HoodieArgs[4], t)
      [] operation = "remove-from-cart" -> removeFromCart(S, Str(ProductId(OtherId)), t)
      [] operation = "update-quantity" ->
            updateCartQuantity(S, Str(ProductId(1)), Whole(1), t, t)
      [] operation = "checkout" -> proceedToCheckout(S, FALSE, t)

BurstName(operation) ==
    CASE operation = "add-to-cart" -> "addToCart"
      [] operation = "remove-from-cart" -> "removeFromCart"
      [] operation = "update-quantity" -> "updateCartQuantity"
      [] operation = "checkout" -> "proceedToCheckout"

\* k calls of an operation at the readings t, t+1, ..., from the state S.
RECURSIVE Burst(_, _, _, _)
Burst(S, operation, k, t) ==
    IF k = 0 THEN S
    ELSE CHOOSE r \in {Burst(StateOf(n), operation, k - 1, t + 1) :
                          n \in {BurstCall(S, operation, t)}} : TRUE

\* The page after the hoodie was added and k calls of one operation were
\* made, a millisecond apart, the last at CartStart.
AfterBurst(operation, k) ==
    CHOOSE r \in {BurstCall(S, operation, CartStart) :
                     S \in {Burst(StateOf(first), operation, k - 1, CartStart - k + 1) :
                               first \in {addToCart(FreshState, HoodieArgs[1], HoodieArgs[2],
                                                    HoodieArgs[3], HoodieArgs[4],
                                                    CartStart - k)}}} : TRUE

BurstCounts == {RATE_LIMIT_MAX - 1, RATE_LIMIT_MAX}

BurstArgs(operation) ==
    CASE operation = "add-to-cart" -> HoodieArgs
      [] operation = "remove-from-cart" -> <<Str(ProductId(OtherId))>>
      [] operation = "update-quantity" -> <<Str(ProductId(1)), Whole(1)>>
      [] operation = "checkout" -> <<>>

\* The arguments of addToCart for the j-th product of a run that fills the
\* cart.
FillArgs(j) == <<Str(ProductId(j)), Str("Test Product"), Whole(25), Str(CdnImage)>>

\* The products j, j+1, ..., CART_MAX_ITEMS added, FillGap apart.
RECURSIVE Fill(_, _)
Fill(S, j) ==
    IF j > CART_MAX_ITEMS THEN S
    ELSE CHOOSE r \in {Fill(StateOf(n), j + 1) :
                          n \in {addToCart(S, FillArgs(j)[1], FillArgs(j)[2],
                                           FillArgs(j)[3], FillArgs(j)[4],
                                           j * FillGap)}} : TRUE

\* The page about to load, on any storage.
InitPageLoading ==
    /\ now = CartStart
    /\ csrfToken = ""
    /\ rateLimitStore = <<>>
    /\ securityLogs = NoItem
    /\ cart = Arr(<<>>)
    /\ storedCart \in PersistedCarts
    /\ cartSecurityManager = "undefined"
    /\ last = NoCall
    /\ accepted = [o \in OpNames |-> <<>>]
    /\ PageIs(ConstructedPage)

\* The page in use, one operation having been called 9 or 10 times in the
\* last seconds.
InitPageInUse ==
    \E operation \in CartOps, k \in BurstCounts :
        \E r \in {AfterBurst(operation, k)} :
            /\ now = CartStart
            /\ csrfToken \in {generateCSRFToken(0, random) : random \in Nonces}
            /\ rateLimitStore = r.rateLimitStore
            /\ securityLogs = r.securityLogs
            /\ cart = r.cart
            /\ storedCart = r.storedCart
            /\ cartSecurityManager = "installed"
            /\ last = Called(BurstName(operation), BurstArgs(operation), r.threw,
                             Undefined, r.ev, r.msgs)
            /\ accepted = r.accepted
            /\ PageIs(ConstructedPage)

\* The page with a full cart: 50 products added over five minutes, the last
\* more than a minute ago.
InitPageFull ==
    \E r \in {Fill(FreshState, 1)} :
        /\ now = CartStart
        /\ csrfToken \in {generateCSRFToken(0, random) : random \in Nonces}
        /\ rateLimitStore = r.rateLimitStore
        /\ securityLogs = r.securityLogs
        /\ cart = r.cart
        /\ storedCart = r.storedCart
        /\ cartSecurityManager = "installed"
        /\ last = Called("addToCart", FillArgs(CART_MAX_ITEMS), FALSE, Undefined,
                         <<>>, <<>>)
        /\ accepted = r.accepted
        /\ PageIs(ConstructedPage)

InitCart == InitPageLoading \/ InitPageInUse \/ InitPageFull

\* The page is loading: its DOMContentLoaded handler has not run yet.
PageLoading == last.op \in {"none", "Reload"}

\* The state an operation leaves, and the call recorded.
Commit(r, op, args, t) ==
    /\ now' = t
    /\ rateLimitStore' = r.rateLimitStore
    /\ securityLogs' = r.securityLogs
    /\ accepted' = r.accepted
    /\ cart' = r.cart
    /\ storedCart' = r.storedCart
    /\ last' = Called(op, args, r.threw, Undefined, r.ev, r.msgs)
    /\ UNCHANGED checkoutVars

\* Reading a method of window.cartSecurityManager while it is undefined.
ManagerMissing == Out(Cur, TRUE, <<>>, <<>>)

\* The DOMContentLoaded handler: new SecurityManager(), then
\* initializeCart: loadCart(), updateCartBadge() (which throws on a cart
\* that is no array when the page has a badge), and the manager stored.
DOMContentLoaded ==
    \E random \in Nonces, badge \in BOOLEAN :
        \E r \in {loadCart([Cur EXCEPT !.rateLimitStore = <<>>,
                                       !.accepted = [o \in OpNames |-> <<>>]],
                           cartSecurityManager)} :
            LET t == now + 1
                badgeThrows == badge /\ r.cart.t # "array"
            IN  /\ PageLoading
                /\ t <= CartStart + MaxCartCalls
                /\ csrfToken' = generateCSRFToken(t, random)
                /\ Commit([r EXCEPT !.threw = badgeThrows], "DOMContentLoaded",
                          <<Bool(badge)>>, t)
                /\ cartSecurityManager' =
                       IF badgeThrows THEN "undefined" ELSE "installed"

\* The page reloaded: its scripts run again (let cart = []), window is new.
Reload ==
    /\ ~PageLoading
    /\ now < CartStart + MaxCartCalls
    /\ cart' = Arr(<<>>)
    /\ cartSecurityManager' = "undefined"
    /\ rateLimitStore' = <<>>
    /\ accepted' = [o \in OpNames |-> <<>>]
    /\ csrfToken' = ""
    /\ last' = Called("Reload", <<>>, FALSE, Undefined, <<>>, <<>>)
    /\ UNCHANGED <<now, securityLogs, storedCart>>
    /\ UNCHANGED checkoutVars

AddToCart ==
    \E product \in Products :
        /\ ~PageLoading
        /\ now + 1 <= CartStart + MaxCartCalls
        /\ \E r \in {IF cartSecurityManager = "undefined" THEN ManagerMissing
                     ELSE addToCart(Cur, product[1], product[2], product[3],
                                    product[4], now + 1)} :
              Commit(r, "addToCart", product, now + 1)
        /\ UNCHANGED <<csrfToken, cartSecurityManager>>

RemoveFromCart ==
    \E productId \in CartIds :
        /\ ~PageLoading
        /\ now + 1 <= CartStart + MaxCartCalls
        /\ \E r \in {IF cartSecurityManager = "undefined" THEN ManagerMissing
                     ELSE removeFromCart(Cur, productId, now + 1)} :
              Commit(r, "removeFromCart", <<productId>>, now + 1)
        /\ UNCHANGED <<csrfToken, cartSecurityManager>>

UpdateCartQuantity ==
    \E productId \in CartIds, newQuantity \in NewQuantities :
        \E d2 \in IF newQuantity = Whole(0) THEN NestedSteps ELSE {0} :
            /\ ~PageLoading
            /\ now + 1 + d2 <= CartStart + MaxCartCalls
            /\ \E r \in {IF cartSecurityManager = "undefined" THEN ManagerMissing
                         ELSE updateCartQuantity(Cur, productId, newQuantity,
                                                 now + 1, now + 1 + d2)} :
                  Commit(r, "updateCartQuantity", <<productId, newQuantity>>,
                         now + 1 + d2)
            /\ UNCHANGED <<csrfToken, cartSecurityManager>>

ProceedToCheckout ==
    \E shopifyAvailable \in BOOLEAN :
        /\ ~PageLoading
        /\ now + 1 <= CartStart + MaxCartCalls
        /\ \E r \in {IF cartSecurityManager = "undefined"
                        /\ LengthOf(cart) # Whole(0)
                     THEN ManagerMissing
                     ELSE proceedToCheckout(Cur, shopifyAvailable, now + 1)} :
              Commit(r, "proceedToCheckout", <<Bool(shopifyAvailable)>>, now + 1)
        /\ UNCHANGED <<csrfToken, cartSecurityManager>>

NextCart ==
    \/ DOMContentLoaded
    \/ Reload
    \/ AddToCart
    \/ RemoveFromCart
    \/ UpdateCartQuantity
    \/ ProceedToCheckout

SpecCart == InitCart /\ [][NextCart]_vars

(***************************************************************************)
(* The cart page after a run of calls that passed the rate limiter and     *)
(* then aborted: 9 or 10 calls of one kind, a millisecond apart or all at  *)
(* one reading of the clock, on a cart holding ten hoodies.                *)
(***************************************************************************)
HatArgs == <<Str(ProductId(OtherId + 1)), Str("<b>Hat</b>"), Str("19.99"), Str(CdnImage)>>

AbortKinds == {"invalid-product", "quantity-cap", "invalid-quantity", "unknown-id"}

\* One call that aborts after its rate-limit check: addToCart of a product
\* with markup in its title, addToCart of the hoodie at its maximum
\* quantity, updateCartQuantity to 11, updateCartQuantity of a product that
\* is not in the cart.
AbortedCall(S, kind, t) ==
    CASE kind = "invalid-product" ->
            addToCart(S, HatArgs[1], HatArgs[2], HatArgs[3], HatArgs[4], t)
      [] kind = "quantity-cap" ->
            addToCart(S, HoodieArgs[1], HoodieArgs[2], HoodieArgs[3], HoodieArgs[4], t)
      [] kind = "invalid-quantity" ->
            updateCartQuantity(S, Str(ProductId(1)), Whole(MAX_QUANTITY + 1), t, t)
      [] kind = "unknown-id" ->
            updateCartQuantity(S, Str(ProductId(OtherId)), Whole(2), t, t)

AbortedName(kind) ==
    IF kind \in {"invalid-product", "quantity-cap"} THEN "addToCart"
    ELSE "updateCartQuantity"

AbortedArgs(kind) ==
    CASE kind = "invalid-product" -> HatArgs
      [] kind = "quantity-cap" -> HoodieArgs
      [] kind = "invalid-quantity" -> <<Str(ProductId(1)), Whole(MAX_QUANTITY + 1)>>
      [] kind = "unknown-id" -> <<Str(ProductId(OtherId)), Whole(2)>>

\* k calls of a kind from the state S, the first at reading t and each
\* `gap` milliseconds after the one before: what the last of them leaves.
RECURSIVE AbortedRun(_, _, _, _, _)
AbortedRun(S, kind, k, t, gap) ==
    With(AbortedCall(S, kind, t), LAMBDA r :
        IF k = 1 THEN r ELSE AbortedRun(StateOf(r), kind, k - 1, t + gap, gap))

\* The page on which the hoodie was added MAX_QUANTITY times at the readings
\* 1, 2, ..., long before the run.
TenHoodies == StateOf(Burst(FreshState, "add-to-cart", MAX_QUANTITY, 1))

AbortGaps == {0, 1}

InitAborted ==
    \E kind \in AbortKinds, k \in BurstCounts, gap \in AbortGaps :
        \E r \in {AbortedRun(TenHoodies, kind, k, CartStart - gap * (k - 1), gap)} :
            /\ now = CartStart
            /\ csrfToken \in {generateCSRFToken(0, random) : random \in Nonces}
            /\ rateLimitStore = r.rateLimitStore
            /\ securityLogs = r.securityLogs
            /\ cart = r.cart
            /\ storedCart = r.storedCart
            /\ cartSecurityManager = "installed"
            /\ last = Called(AbortedName(kind), AbortedArgs(kind), r.threw,
                             Undefined, r.ev, r.msgs)
            /\ accepted = r.accepted
            /\ PageIs(ConstructedPage)

NextAborted == AddToCart \/ UpdateCartQuantity

SpecAborted == InitAborted /\ [][NextAborted]_vars

(***************************************************************************)
(* The checkout page in use: products added to MockShopCart, the checkout  *)
(* started from it, the steps of PerformanceCheckout called in any order,  *)
(* and the timer of simulateOrderProcessing firing.  Every call is made a  *)
(* millisecond after the one before, so that any number of them fits into  *)
(* the two seconds an order takes.                                         *)
(***************************************************************************)
MaxCheckoutCalls == 4

MaxMissing == 2

\* The product data the page's buttons pass to addToCart: two products, one
\* with a padded title and no image or quantity, and one priced at 0.
Hoodie == Obj(Str("hoodie"), Str(" Green Hoodie "), Num(2999), Undefined, Undefined)

Cap == Obj(Str("cap"), Str("Cap"), Whole(25), Str(CdnImage), Whole(2))

Sticker == Obj(Str("sticker"), Str("Sticker"), Whole(0), Undefined, Whole(1))

MockProducts == {Hoodie, Cap, Sticker}

\* What the customer may have typed into #customerInfoForm: every field
\* filled, or up to MaxMissing of them left empty.
SampleValues ==
    <<"ada@example.com", "Ada", "Lovelace", "12 St James Sq", "London", "LDN",
      "SW1Y", "GB">>

FormOf(missing) ==
    [i \in 1..Len(required) |->
        <<required[i], IF i \in missing THEN "" ELSE SampleValues[i]>>]

Forms ==
    {FormOf(missing) :
        missing \in {m \in SUBSET (1..Len(required)) : Cardinality(m) <= MaxMissing}}

\* Math.random().toString(36).substr(2, 9) in upper case: nothing when
\* Math.random() gives 0.
OrderSuffixes == {"", "K7Q2M9X4B"}

CurPage ==
    [heap |-> heap, mockCart |-> mockCart, mockShopCart |-> mockShopCart,
     checkout |-> checkout, performanceCart |-> performanceCart,
     modal |-> modal, inFlight |-> inFlight, threw |-> FALSE, msgs |-> <<>>]

\* The page after these products were added, one call after the other.
RECURSIVE AfterAdds(_)
AfterAdds(products) ==
    IF products = <<>> THEN ConstructedPage
    ELSE CHOOSE P \in {MockShopCart_addToCart(
                           [AfterAdds(SubSeq(products, 1, Len(products) - 1))
                               EXCEPT !.msgs = <<>>],
                           products[Len(products)])} : TRUE

\* The carts the page starts with: none, one product, and two products of
\* which one was added twice; the clock then reads CheckoutStart.
StartCarts == {<<>>, <<Hoodie>>, <<Hoodie, Cap, Hoodie>>}

CheckoutStart == Len(<<Hoodie, Cap, Hoodie>>)

\* The page a start leaves: the products added and, for `opened`, the
\* checkout then started from the cart.
StartPage(products, opened) ==
    IF opened
    THEN MockShopCart_proceedToCheckout([AfterAdds(products) EXCEPT !.msgs = <<>>],
                                        TRUE)
    ELSE AfterAdds(products)

InitCheckout ==
    \E products \in StartCarts, opened \in BOOLEAN :
        \E P \in {StartPage(products, opened)} :
            /\ now = CheckoutStart
            /\ csrfToken = ""
            /\ rateLimitStore = <<>>
            /\ securityLogs = NoItem
            /\ cart = Arr(<<>>)
            /\ storedCart = NoItem
            /\ cartSecurityManager = "undefined"
            /\ accepted = [o \in OpNames |-> <<>>]
            /\ PageIs(P)
            /\ last = IF opened
                      THEN Called("MockShopCart.proceedToCheckout", <<Bool(TRUE)>>,
                                  FALSE, Undefined, <<>>, P.msgs)
                      ELSE IF products = <<>> THEN NoCall
                      ELSE Called("MockShopCart.addToCart",
                                  <<products[Len(products)]>>, FALSE, Undefined,
                                  <<>>, P.msgs)

\* The state a call leaves, and the call recorded.
CheckoutCommit(P, op, args) ==
    /\ heap' = P.heap
    /\ mockCart' = P.mockCart
    /\ mockShopCart' = P.mockShopCart
    /\ checkout' = P.checkout
    /\ performanceCart' = P.performanceCart
    /\ modal' = P.modal
    /\ inFlight' = P.inFlight
    /\ last' = Called(op, args, P.threw, Undefined, <<>>, P.msgs)
    /\ UNCHANGED <<csrfToken, rateLimitStore, securityLogs, cart, storedCart,
                   cartSecurityManager, accepted>>

\* A call from the page, a millisecond after the last.
UserCall(P, op, args) ==
    /\ now < CheckoutStart + MaxCheckoutCalls
    /\ now' = now + 1
    /\ CheckoutCommit(P, op, args)

MockAddToCart ==
    \E productData \in MockProducts :
        \E P \in {MockShopCart_addToCart(CurPage, productData)} :
            UserCall(P, "MockShopCart.addToCart", <<productData>>)

\* The ids and quantities the cart dropdown passes to updateQuantity and
\* removeItem.
MockIds == {Str("hoodie"), Str("cap")}

MockQuantities == {Whole(0), Whole(3)}

MockUpdateQuantity ==
    \E itemId \in MockIds, newQuantity \in MockQuantities :
        \E P \in {MockShopCart_updateQuantity(CurPage, itemId, newQuantity)} :
            UserCall(P, "MockShopCart.updateQuantity", <<itemId, newQuantity>>)

MockRemoveItem ==
    \E itemId \in MockIds :
        \E P \in {MockShopCart_removeItem(CurPage, itemId)} :
            UserCall(P, "MockShopCart.removeItem", <<itemId>>)

\* checkout.addToCart(productData), which the global function addToCart
\* of the checkout script calls for the page's buttons.
PerformanceAddToCart ==
    \E productData \in MockProducts :
        \E P \in {PerformanceCheckout_addToCart(CurPage, productData)} :
            UserCall(P, "PerformanceCheckout.addToCart", <<productData>>)

\* checkout.proceedToCheckout(), which the global function
\* proceedToCheckout of the checkout script calls.
PerformanceProceedToCheckout ==
    \E P \in {PerformanceCheckout_proceedToCheckout(CurPage)} :
        UserCall(P, "PerformanceCheckout.proceedToCheckout", <<>>)

MockProceedToCheckout ==
    \E checkoutAvailable \in BOOLEAN :
        \E P \in {MockShopCart_proceedToCheckout(CurPage, checkoutAvailable)} :
            UserCall(P, "MockShopCart.proceedToCheckout", <<Bool(checkoutAvailable)>>)

NextStep ==
    \E form \in IF checkout.checkoutStep = "info" /\ modal.open THEN Forms
                ELSE {<<>>} :
        \E P \in {nextStep(CurPage, form)} :
            UserCall(P, "nextStep", <<form>>)

PreviousStep ==
    \E P \in {previousStep(CurPage)} : UserCall(P, "previousStep", <<>>)

CompleteOrder ==
    \E P \in {completeOrder(CurPage)} : UserCall(P, "completeOrder", <<>>)

CloseCustomCheckout ==
    \E P \in {closeCustomCheckout(CurPage)} :
        UserCall(P, "closeCustomCheckout", <<>>)

ContinueShopping ==
    \E P \in {continueShopping(CurPage)} : UserCall(P, "continueShopping", <<>>)

\* The timer of the completeOrder call longest in flight fires: the rest of
\* simulateOrderProcessing and of completeOrder run.
OrderProcessed ==
    \E random \in OrderSuffixes :
        /\ inFlight # <<>>
        /\ \E P \in {AfterProcessing(simulateOrderProcessing(CurPage, random, now))} :
              CheckoutCommit(P, "completeOrder.resumed", <<Str(random)>>)
        /\ UNCHANGED now

NextCheckout ==
    \/ MockAddToCart
    \/ MockUpdateQuantity
    \/ MockRemoveItem
    \/ MockProceedToCheckout
    \/ PerformanceAddToCart
    \/ PerformanceProceedToCheckout
    \/ NextStep
    \/ PreviousStep
    \/ CompleteOrder
    \/ CloseCustomCheckout
    \/ ContinueShopping
    \/ OrderProcessed

SpecCheckout == InitCheckout /\ [][NextCheckout]_vars

(***************************************************************************)
(* The security log on its own: logSecurityEvent called for events of      *)
(* every kind, on a store that is new, nearly full, full, or holds what    *)
(* the manager did not write.                                              *)
(***************************************************************************)
MaxLogCalls == 2

\* logSecurityEvent(event): the entry is stored, and sendSecurityAlert is
\* called with it when its severity is HIGH.
logSecurityEvent(stored, event) ==
    [stored |-> storeSecurityLog(stored, LogEntry(event)),
     alerts |-> IF LogEntry(event).severity = "HIGH" THEN <<LogEntry(event)>>
                ELSE <<>>]

\* The kinds of event the manager logs, in the order of its code.
CodeEvents ==
    <<"CSRF_TOKEN_EXPIRED", "CSRF_TOKEN_INVALID", "RATE_LIMIT_EXCEEDED",
      "INVALID_PRODUCT_ID", "INVALID_PRODUCT_TITLE", "INVALID_PRODUCT_PRICE",
      "INVALID_PRODUCT_IMAGE", "INVALID_PRODUCT_QUANTITY", "INVALID_CART_FORMAT",
      "EMPTY_CART_ATTEMPT", "CART_TOO_LARGE", "INVALID_ITEMS_IN_CART">>

\* The events logged: those kinds, a kind of the caller's own, and the name
\* of a HIGH kind in lower case.
LogEvents ==
    {CodeEvents[i] : i \in 1..Len(CodeEvents)}
        \cup {"TEST_EVENT", "rate_limit_exceeded"}

\* The store after the events numbered from..to were logged, one call after
\* the other, their kinds taken in turn.
RECURSIVE LogRun(_, _, _)
LogRun(stored, from, to) ==
    IF from > to THEN stored
    ELSE IF from = to
    THEN storeSecurityLog(stored, LogEntry(CodeEvents[1 + (from % Len(CodeEvents))]))
    ELSE With(LogRun(stored, from, (from + to) \div 2), LAMBDA half :
             LogRun(half, (from + to) \div 2 + 1, to))

\* The store after n events were logged on a new store.
Logged(n) == LogRun(NoItem, 1, n)

\* What localStorage['security-logs'] holds when the calls start.
LogStores ==
    {NoItem, Logged(LOG_CAP - 1), Logged(LOG_CAP), Logged(LOG_CAP + 2),
     InvalidJSON, EmptyText, Json(Null), Json(EmptyObj), Json(Str("logs"))}

InitLog ==
    /\ now = 0
    /\ csrfToken \in {generateCSRFToken(0, random) : random \in Nonces}
    /\ rateLimitStore = <<>>
    /\ securityLogs \in LogStores
    /\ cart = Arr(<<>>)
    /\ storedCart = NoItem
    /\ cartSecurityManager = "undefined"
    /\ last = NoCall
    /\ accepted = [o \in OpNames |-> <<>>]
    /\ PageIs(ConstructedPage)

LogSecurityEventCall ==
    \E event \in LogEvents :
        \E r \in {logSecurityEvent(securityLogs, event)} :
            /\ now < MaxLogCalls
            /\ now' = now + 1
            /\ securityLogs' = r.stored
            /\ last' = Called("logSecurityEvent", <<Str(event)>>, FALSE,
                               Arr(r.alerts), <<event>>, <<>>)
            /\ UNCHANGED <<csrfToken, rateLimitStore, accepted, cart, storedCart,
                           cartSecurityManager>>
            /\ UNCHANGED checkoutVars

NextLog == LogSecurityEventCall

SpecLog == InitLog /\ [][NextLog]_vars

(***************************************************************************)
(* validateCart on its own: one call for each candidate cart.              *)
(***************************************************************************)
MaxCartLen == 2

\* The elements the candidate carts are made of: two valid items, items
\* failing one field or two, and values that are no objects.
CartElements ==
    { StoredItem(1, Whole(1)), StoredItem(2, Whole(10)),
      Obj(Str("abc"), Str("Test Product"), Whole(25), Str(CdnImage), Whole(1)),
      Obj(Str(ProductId(3)), Str("<b>Hat</b>"), Whole(25), Str(CdnImage), Whole(1)),
      Obj(Str(ProductId(4)), Str("Test Product"), Whole(0), Str(CdnImage), Whole(1)),
      Obj(Str(ProductId(5)), Str("Test Product"), Whole(25),
          Str("http://cdn.shopify.com/x.jpg"), Whole(1)),
      Obj(Str(ProductId(6)), Str("Test Product"), Whole(25), Str(CdnImage), Whole(11)),
      Obj(Str(ProductId(7)), Str(""), Str("25"), Str(CdnImage), Whole(1)),
      Whole(5), Null }

\* The sequences over S of length n.
RECURSIVE SeqsOf(_, _)
SeqsOf(S, n) ==
    IF n = 0 THEN {<<>>}
    ELSE {Append(s, e) : s \in SeqsOf(S, n - 1), e \in S}

\* n valid items of ids 1..n, the item at place `bad` (if any) with id 'abc'.
LongCart(n, bad) ==
    [i \in 1..n |->
        IF i = bad
        THEN Obj(Str("abc"), Str("Test Product"), Whole(25), Str(CdnImage), Whole(1))
        ELSE StoredItem(i, Whole(1))]

CandidateCarts ==
    {Arr(a) : a \in UNION {SeqsOf(CartElements, n) : n \in 0..MaxCartLen}}
        \cup {Arr(LongCart(CART_MAX_ITEMS, 0)), Arr(LongCart(CART_MAX_ITEMS, 7)),
              Arr(LongCart(CART_MAX_ITEMS + 1, 0))}
        \cup {Null, Undefined, EmptyObj, Str("cart"), Whole(5)}

InitValidateCart ==
    /\ now = 0
    /\ csrfToken \in {generateCSRFToken(0, random) : random \in Nonces}
    /\ rateLimitStore = <<>>
    /\ securityLogs = NoItem
    /\ cart = Arr(<<>>)
    /\ storedCart = NoItem
    /\ cartSecurityManager = "undefined"
    /\ accepted = [o \in OpNames |-> <<>>]
    /\ last \in {Pending("validateCart", <<cartItems>>) : cartItems \in CandidateCarts}
    /\ PageIs(ConstructedPage)

\* The call returns its array or throws an Error with a message.
ValidateCartCall ==
    /\ last.op = "validateCart"
    /\ IsPending
    /\ \E r \in {validateCart(last.args[1])} :
          /\ securityLogs' = LogAll(securityLogs, r.ev)
          /\ last' = Called("validateCart", last.args, r.threw,
                             IF r.threw THEN [t |-> "error", message |-> r.error]
                             ELSE r.ret,
                             r.ev, <<>>)
    /\ UNCHANGED <<now, csrfToken, rateLimitStore, accepted, cart, storedCart,
                   cartSecurityManager>>
    /\ UNCHANGED checkoutVars

NextValidateCart == ValidateCartCall

SpecValidateCart == InitValidateCart /\ [][NextValidateCart]_vars

(***************************************************************************)
(* The rate limiter with a clock that may give a reading that is no        *)
(* number.                                                                 *)
(***************************************************************************)
MaxClockCalls == 5

\* checkRateLimit(operation) with Date.now() returning `reading`, the true
\* time having advanced by one millisecond; the call is recorded with the
\* reading it was given.
ClockCall(reading) ==
    \E operation \in RateOps :
        \E r \in {checkRateLimit(rateLimitStore, operation, reading)} :
            /\ now < MaxClockCalls
            /\ LogLen < MaxLogged
            /\ now' = now + 1
            /\ rateLimitStore' = r.store
            /\ securityLogs' = LogAll(securityLogs, r.ev)
            /\ accepted' = Accept(accepted, operation, now + 1, r.ret)
            /\ last' = Called("checkRateLimit",
                               <<Str(operation),
                                 IF reading = InvalidTimestamp
                                 THEN Str("invalid-timestamp") ELSE Whole(reading)>>,
                               FALSE, Bool(r.ret), r.ev, <<>>)
            /\ UNCHANGED <<csrfToken, cart, storedCart, cartSecurityManager>>
            /\ UNCHANGED checkoutVars

CheckRateLimitValidClock == ClockCall(now + 1)

CheckRateLimitInvalidClock == ClockCall(InvalidTimestamp)

NextClock == CheckRateLimitValidClock \/ CheckRateLimitInvalidClock

SpecClock == InitManager /\ [][NextClock]_vars

(***************************************************************************)
(* A page left open: the hoodie in the cart, and checkouts called a        *)
(* millisecond or more than an hour after the call before.                 *)
(***************************************************************************)
MaxSessionCalls == 6

SessionSteps == {1, CSRF_MAX_AGE + 1}

\* The page a millisecond after it was loaded at reading 0 on empty storage,
\* the hoodie just added.
InitSession ==
    \E r \in {addToCart(FreshState, HoodieArgs[1], HoodieArgs[2], HoodieArgs[3],
                        HoodieArgs[4], 1)} :
        /\ now = 1
        /\ csrfToken \in {generateCSRFToken(0, random) : random \in Nonces}
        /\ rateLimitStore = r.rateLimitStore
        /\ securityLogs = r.securityLogs
        /\ cart = r.cart
        /\ storedCart = r.storedCart
        /\ cartSecurityManager = "installed"
        /\ last = Called("addToCart", HoodieArgs, r.threw, Undefined, r.ev, r.msgs)
        /\ accepted = r.accepted
        /\ PageIs(ConstructedPage)

\* window.proceedToCheckout(), called after one of the steps; the short and
\* the long steps taken so far are read off the clock.
SessionCheckout ==
    \E shopifyAvailable \in BOOLEAN, d \in SessionSteps :
        /\ Len(accepted["checkout"]) < RATE_LIMIT_MAX
        /\ (now % (CSRF_MAX_AGE + 1)) + (now \div (CSRF_MAX_AGE + 1)) <= MaxSessionCalls
        /\ \E r \in {proceedToCheckout(Cur, shopifyAvailable, now + d)} :
              Commit(r, "proceedToCheckout", <<Bool(shopifyAvailable)>>, now + d)
        /\ UNCHANGED <<csrfToken, cartSecurityManager>>

NextSession == SessionCheckout

SpecSession == InitSession /\ [][NextSession]_vars

(***************************************************************************)
(* sanitizeInput on its own: one call for each input and type.             *)
(***************************************************************************)
LONG_INPUT_LENGTH == 200

\* What a form field or a caller may pass: the inputs of the repository's
\* tests, numbers in and out of range, markup, padded and long texts, and
\* values that are no strings.
SanitizeInputs ==
    { Str(""), Str("abc"), Str("123abc"), Str("123"), Str("12.5"), Str("0"),
      Str("-5"), Str("-0.01"), Str("999999"), Str("999999.01"), Str("1000000"),
      Str(" 42 "), Str(".5"), Str("abc123"), Str("1 2"), Str("- 5"), Str("1e3"),
      Str("12.3456"), Str("Infinity"),
      Str("<img src=x onerror=alert(\"xss\")>"),
      Str("test<script>alert(\"xss\")</script>@example.com"),
      Str("  Jane.Doe@Example.COM  "), Str("a < b & c > d"), Str("<b>Hat</b>"),
      Str(Repeat("a", LONG_INPUT_LENGTH)), Str(Repeat("<", SANITIZE_MAX_LENGTH)),
      Str(Repeat(" ", 3) \o Repeat("A", SANITIZE_MAX_LENGTH) \o "<i>"),
      Str(Repeat("a", SANITIZE_MAX_LENGTH - 1) \o " b"),
      Null, Undefined, Whole(5), EmptyObj }

SanitizeTypes == {"text", "email", "number", "search"}

InitSanitize ==
    /\ now = 0
    /\ csrfToken \in {generateCSRFToken(0, random) : random \in Nonces}
    /\ rateLimitStore = <<>>
    /\ securityLogs = NoItem
    /\ cart = Arr(<<>>)
    /\ storedCart = NoItem
    /\ cartSecurityManager = "undefined"
    /\ accepted = [o \in OpNames |-> <<>>]
    /\ last \in {Pending("sanitizeInput", <<input, Str(type)>>) :
                    input \in SanitizeInputs, type \in SanitizeTypes}
    /\ PageIs(ConstructedPage)

SanitizeInputCall ==
    /\ last.op = "sanitizeInput"
    /\ IsPending
    /\ \E r \in {sanitizeInput(last.args[1], last.args[2].s)} :
          last' = Called("sanitizeInput", last.args, FALSE, r, <<>>, <<>>)
    /\ UNCHANGED <<now, csrfToken, rateLimitStore, securityLogs, accepted, cart,
                   storedCart, cartSecurityManager>>
    /\ UNCHANGED checkoutVars

NextSanitize == SanitizeInputCall

SpecSanitize == InitSanitize /\ [][NextSanitize]_vars

(***************************************************************************)
(* MockShopCart built from what localStorage holds                         *)
(***************************************************************************)
\* MockShopCart.loadCartFromStorage(): the cart is what JSON.parse makes of
\* the stored text, as it stands, and [] when nothing is stored or when the
\* text does not parse.  The stored texts considered parse to arrays of
\* objects.
MockShopCart_loadCartFromStorage(P) ==
    IF NothingRead(P.mockShopCart) \/ P.mockShopCart = InvalidJSON
    THEN [P EXCEPT !.heap = <<>>, !.mockCart = <<>>]
    ELSE [P EXCEPT !.heap = P.mockShopCart.v.a,
                   !.mockCart = [i \in 1..Len(P.mockShopCart.v.a) |-> i]]

\* PerformanceCheckout.loadCartFromStorage(): the same of the text stored
\* under 'performanceCart', or under 'mockShopCart' when that one reads as
\* nothing; the objects parsed are new ones.
PerformanceCheckout_loadCartFromStorage(P) ==
    With(IF NothingRead(P.performanceCart) THEN P.mockShopCart
         ELSE P.performanceCart,
         LAMBDA saved :
        IF NothingRead(saved) \/ saved = InvalidJSON
        THEN [P EXCEPT !.checkout.localCart = <<>>]
        ELSE [P EXCEPT !.heap = @ \o saved.v.a,
                       !.checkout.localCart =
                           [i \in 1..Len(saved.v.a) |-> Len(P.heap) + i]])

StoredMockItem(quantity) ==
    Obj(Str("hoodie"), Str("Green Hoodie"), Num(2999), Str("/placeholder.jpg"),
        quantity)

\* What saveCartToStorage wrote during an earlier visit of the page.
SavedMockCarts ==
    {AfterAdds(<<Hoodie>>).mockShopCart, AfterAdds(<<Hoodie, Cap, Hoodie>>).mockShopCart}

\* What localStorage can hold under 'mockShopCart' when the page loads:
\* nothing, what an earlier visit saved, or a text written by other means.
StoredMockCarts ==
    {NoItem, InvalidJSON, EmptyText} \cup SavedMockCarts
        \cup {Json(Arr(<<StoredMockItem(Whole(0))>>)),
              Json(Arr(<<StoredMockItem(Whole(1)), StoredMockItem(Whole(2))>>))}

\* new MockShopCart() and new PerformanceCheckout() on a page whose
\* localStorage holds one of `stored` under 'mockShopCart'.
InitMockCartFrom(stored) ==
    \E saved \in stored :
        \E P \in {PerformanceCheckout_loadCartFromStorage(
                      MockShopCart_loadCartFromStorage(
                          [ConstructedPage EXCEPT !.mockShopCart = saved]))} :
            /\ now = CheckoutStart
            /\ csrfToken = ""
            /\ rateLimitStore = <<>>
            /\ securityLogs = NoItem
            /\ cart = Arr(<<>>)
            /\ storedCart = NoItem
            /\ cartSecurityManager = "undefined"
            /\ accepted = [o \in OpNames |-> <<>>]
            /\ PageIs(P)
            /\ last = NoCall

InitMockCart == InitMockCartFrom(StoredMockCarts)

NextMockCart == MockAddToCart \/ MockUpdateQuantity \/ MockRemoveItem

SpecMockCart == InitMockCart /\ [][NextMockCart]_vars

(***************************************************************************)
(* Properties                                                              *)
(***************************************************************************)

\* C1: for every operation, at most RATE_LIMIT_MAX (10) of the calls whose
\* clock readings lie in the current window have returned true, calls made
\* at the same reading included.
C1_AtMostQuotaPerWindow ==
    \A o \in DOMAIN accepted : Len(accepted[o]) <= RATE_LIMIT_MAX

\* C5: a call counts toward its own operation's quota only: a call of
\* checkRateLimit(A) is rejected only when RATE_LIMIT_MAX accepted calls for
\* A itself lie in its window, whatever was accepted for other operations.
C5_OwnQuotaOnly ==
    (last.op = "checkRateLimit" /\ last.ret = Bool(FALSE))
        => Len(accepted[last.args[1].s]) >= RATE_LIMIT_MAX

\* The readings a token of this model can have been issued at.
IssueReadings ==
    (0..MaxSkew) \cup ((CSRF_MAX_AGE - 1)..(CSRF_MAX_AGE + MaxSkew))

\* A token is well formed when it decodes to "<digits>:<nonce>".
WellFormedToken(token) ==
    LET payload == atob(token)
        stamp == FirstField(payload.bytes)
    IN  /\ payload.ok
        /\ stamp # <<>>
        /\ Len(stamp) < Len(payload.bytes)
        /\ \A i \in 1..Len(stamp) : stamp[i] \in 48..57

\* The token generateCSRFToken gives at each of these readings.
IssuedTokens ==
    [T \in IssueReadings |-> [random \in Nonces |-> generateCSRFToken(T, random)]]

\* C3: validateCSRFToken never throws, returns false with one
\* CSRF_TOKEN_INVALID event for every token that is not the encoding of
\* "<numeric timestamp>:<nonce>", and returns true only for well-formed
\* tokens.
C3_MalformedTokenRejected ==
    last.op = "validateCSRFToken" =>
        /\ ~last.threw
        /\ ~WellFormedToken(last.args[1].s) =>
              (last.ret = Bool(FALSE) /\ last.ev = <<"CSRF_TOKEN_INVALID">>)
        /\ last.ret = Bool(TRUE) => WellFormedToken(last.args[1].s)

\* C4: a token issued by generateCSRFToken at reading T and verified at
\* reading now with maximum age M verifies iff now - T <= M; when it does
\* not, exactly one CSRF_TOKEN_EXPIRED event is logged, and none when it does.
C4_TokenAgeBoundary ==
    \A T \in IssueReadings, random \in Nonces :
        (last.op = "validateCSRFToken"
            /\ last.args[1].s = IssuedTokens[T][random]) =>
            LET M == ToInt(last.args[2])
            IN  IF now - T <= M
                THEN last.ret = Bool(TRUE) /\ last.ev = <<>>
                ELSE last.ret = Bool(FALSE) /\ last.ev = <<"CSRF_TOKEN_EXPIRED">>

\* The host of an https URL: what follows "https://" up to the first "/",
\* "?" or "#".
RECURSIVE UpToDelimiter(_)
UpToDelimiter(s) ==
    IF Len(s) = 0 \/ CharAt(s, 1) \in {"/", "?", "#"} THEN ""
    ELSE CharAt(s, 1) \o UpToDelimiter(SubSeq(s, 2, Len(s)))

HostOf(url) == UpToDelimiter(SubSeq(url, Len("https://") + 1, Len(url)))

endsWith(s, suffix) ==
    Len(suffix) <= Len(s) /\ SubSeq(s, Len(s) - Len(suffix) + 1, Len(s)) = suffix

\* An HTTPS URL whose host is shopify.com or one of its subdomains.
OnShopifyHost(image) ==
    /\ image.t = "string"
    /\ startsWith(image.s, "https://")
    /\ (HostOf(image.s) = "shopify.com" \/ endsWith(HostOf(image.s), ".shopify.com"))

\* The five field predicates of a cart item, as the data model states them.
FieldOk(item, p) ==
    LET v == Prop(item, p)
    IN  CASE p = "id" -> v.t = "string" /\ IdPattern(v.s)
          [] p = "title" -> v.t = "string" /\ TitlePattern(v.s)
          [] p = "price" -> v.t = "number" /\ Greater(v, Whole(0)) /\ Less(v, Whole(10000))
          [] p = "image" -> OnShopifyHost(v)
          [] p = "quantity" ->
                v.t = "number" /\ v \in {Whole(q) : q \in 1..10}

FieldOrder == <<"id", "title", "price", "image", "quantity">>

EventOfField ==
    [id |-> "INVALID_PRODUCT_ID", title |-> "INVALID_PRODUCT_TITLE",
     price |-> "INVALID_PRODUCT_PRICE", image |-> "INVALID_PRODUCT_IMAGE",
     quantity |-> "INVALID_PRODUCT_QUANTITY"]

\* The first field, in the order id, title, price, image, quantity, that a
\* candidate fails.
FirstFailing(item) ==
    FieldOrder[CHOOSE i \in 1..5 :
                  /\ ~FieldOk(item, FieldOrder[i])
                  /\ \A j \in 1..(i - 1) : FieldOk(item, FieldOrder[j])]

ItemCallDone == last.op = "validateCartItem" /\ ~IsPending

\* C7: validateCartItem returns a non-null item iff all five field
\* predicates hold (the image being an HTTPS URL on a Shopify host), and a
\* non-null result carries exactly the candidate's five field values.
C7_NonNullIffAllFive ==
    (ItemCallDone /\ ~last.threw) =>
        LET item == last.args[1]
        IN  /\ last.ret # Null <=> \A p \in ItemProps : FieldOk(item, p)
            /\ last.ret # Null =>
                  \A p \in ItemProps : last.ret[p] = Prop(item, p)

\* C8: validateCartItem never throws; a failure returns null with exactly
\* one event, naming the first failing field; a success logs no event.
C8_NullAndOneEvent ==
    ItemCallDone =>
        /\ ~last.threw
        /\ last.ret = Null =>
              last.ev = <<EventOfField[FirstFailing(last.args[1])]>>
        /\ last.ret # Null => last.ev = <<>>

\* C4 witness: the manager's own token, issued at reading 0, has just been
\* refused at reading CSRF_MAX_AGE + 1 under the default maximum age.
C4_Witness ==
    /\ last.op = "validateCSRFToken"
    /\ last.args[1].s = csrfToken
    /\ last.args[2] = Whole(CSRF_MAX_AGE)
    /\ \E random \in Nonces : csrfToken = IssuedTokens[0][random]
    /\ now = CSRF_MAX_AGE + 1
    /\ last.ret = Bool(FALSE)

\* A persisted value that is a valid non-empty cart: validateCart accepts
\* it and returns it as it is.
ValidCart(stored) ==
    /\ stored # NoItem
    /\ stored.json
    /\ stored.v.t = "array"
    /\ Len(stored.v.a) > 0
    /\ ~validateCart(stored.v).threw
    /\ validateCart(stored.v).ret = stored.v

\* C2: when the page is reloaded while storage holds a valid non-empty cart
\* C persisted by the cart operations, page initialisation leaves the
\* in-memory cart equal to C and the persisted cart equal to C.
C2_ReloadKeepsCart ==
    [][(last.op = "Reload" /\ last'.op = "DOMContentLoaded" /\ ValidCart(storedCart))
          => (cart' = storedCart.v /\ storedCart' = storedCart)]_vars

\* The names the four cart operations are recorded under.
CartCalls ==
    {"addToCart", "removeFromCart", "updateCartQuantity", "proceedToCheckout"}

RateLimitMessages(msgs) ==
    SelectSeq(msgs, LAMBDA m : startsWith(m, "Rate limit exceeded"))

\* C6: a call of addToCart, removeFromCart, updateCartQuantity or
\* proceedToCheckout in which checkRateLimit returned false leaves the
\* in-memory cart and the persisted cart as they were and shows exactly one
\* 'Rate limit exceeded' message.
C6_RejectedCallLeavesCart ==
    [][(last'.op \in CartCalls
          /\ \E i \in 1..Len(last'.ev) : last'.ev[i] = "RATE_LIMIT_EXCEEDED")
          => /\ cart' = cart
             /\ storedCart' = storedCart
             /\ Len(RateLimitMessages(last'.msgs)) = 1]_vars

\* C6 witness: removeFromCart has just been refused by the rate limiter for
\* a product that is in the cart.
C6_Witness ==
    /\ last.op = "removeFromCart"
    /\ last.ev = <<"RATE_LIMIT_EXCEEDED">>
    /\ last.msgs = <<"Rate limit exceeded. Please wait before removing more items.">>
    /\ cart.t = "array"
    /\ \E i \in 1..Len(cart.a) : cart.a[i].id = last.args[1]
    /\ storedCart = Json(cart)

\* A value that is a sequence of items each of which validateCartItem
\* accepts.
SequenceOfValidItems(v) ==
    /\ v.t = "array"
    /\ \A i \in 1..Len(v.a) :
          /\ ~validateCartItem(v.a[i]).threw
          /\ validateCartItem(v.a[i]).ret # Null

\* C9: after loadCart the in-memory cart is the empty sequence or a
\* sequence of items that pass validateCartItem; a persisted value that
\* fails validateCart (tampered items, a JSON value that is no array, more
\* than 50 items) leaves the cart empty and is recorded as a security event.
C9_LoadDiscardsInvalidCart ==
    [][last'.op = "DOMContentLoaded" =>
          /\ SequenceOfValidItems(cart')
          /\ (storedCart # NoItem /\ storedCart.json /\ storedCart.v # Arr(<<>>)
                /\ validateCart(storedCart.v).threw)
                => (cart' = Arr(<<>>) /\ last'.ev # <<>>)]_vars

\* C10: no two items of the cart have the same id.
C10_UniqueIds ==
    cart.t = "array" =>
        \A i, j \in 1..Len(cart.a) :
            Prop(cart.a[i], "id") = Prop(cart.a[j], "id") => i = j

\* C10 witness: addToCart has just been called for a product already in a
\* cart of two products, and the cart holds it once, with quantity 2 or more.
C10_Witness ==
    /\ last.op = "addToCart"
    /\ ~last.threw
    /\ last.msgs = <<>>
    /\ cart.t = "array"
    /\ Len(cart.a) >= 2
    /\ \E i \in 1..Len(cart.a) :
          cart.a[i].id = last.args[1] /\ AtLeast(cart.a[i].quantity, Whole(2))

\* C11: every item of the cart satisfies the five field constraints of the
\* data model (its quantity an integer in 1..10, its image an HTTPS URL on a
\* Shopify host), and the cart holds at most 50 items.
C11_ItemsSatisfyConstraints ==
    cart.t = "array" =>
        /\ Len(cart.a) <= CART_MAX_ITEMS
        /\ \A i \in 1..Len(cart.a) : \A p \in ItemProps : FieldOk(cart.a[i], p)

\* The call just made is addToCart, let through by the rate limiter, of a
\* product that passed validation, on a cart that is a sequence.
AddedValidProduct ==
    /\ last'.op = "addToCart"
    /\ ~last'.threw
    /\ last'.ev = <<>>
    /\ cartSecurityManager = "installed"
    /\ cart.t = "array"

\* C12: addToCart of an id already in the cart raises that item's quantity
\* by one when it is below 10, every other item and the order staying as
\* they were, and persists the cart; at quantity 10 it leaves the cart and
\* the persisted cart unchanged and shows the maximum-quantity message.
C12_AddOfExistingId ==
    [][(AddedValidProduct /\ FindIndex(cart.a, last'.args[1]) > 0) =>
          LET i == FindIndex(cart.a, last'.args[1])
          IN  IF Less(cart.a[i].quantity, Whole(MAX_QUANTITY))
              THEN /\ cart' = [cart EXCEPT !.a[i].quantity = Plus(@, Whole(1))]
                   /\ storedCart' = Json(cart')
              ELSE /\ cart' = cart
                   /\ storedCart' = storedCart
                   /\ last'.msgs = <<"Maximum quantity (10) reached for this item.">>]_vars

\* C12 witness: addToCart has just been refused for a product the cart
\* holds with quantity 10.
C12_Witness ==
    /\ last.op = "addToCart"
    /\ last.msgs = <<"Maximum quantity (10) reached for this item.">>
    /\ cart.t = "array"
    /\ \E i \in 1..Len(cart.a) :
          cart.a[i].id = last.args[1] /\ cart.a[i].quantity = Whole(MAX_QUANTITY)

\* C13: addToCart of a validated product whose id is not in the cart appends
\* the item with quantity 1 when the cart holds fewer than 50 items, and
\* persists the cart; on a cart of 50 items it leaves the cart and the
\* persisted cart unchanged and shows the cart-full message.
C13_AddOfNewId ==
    [][(AddedValidProduct /\ FindIndex(cart.a, last'.args[1]) = 0) =>
          IF Len(cart.a) < CART_MAX_ITEMS
          THEN /\ cart' = [cart EXCEPT !.a =
                              Append(@, Obj(last'.args[1], last'.args[2],
                                            parseFloat(last'.args[3]), last'.args[4],
                                            Whole(1)))]
               /\ storedCart' = Json(cart')
          ELSE /\ cart' = cart
               /\ storedCart' = storedCart
               /\ last'.msgs =
                      <<"Cart is full. Please remove some items before adding more.">>]_vars

\* C13 witness: addToCart of a product not in the cart has just been refused
\* on a cart of 50 items.
C13_Witness ==
    /\ last.op = "addToCart"
    /\ last.msgs = <<"Cart is full. Please remove some items before adding more.">>
    /\ last.ev = <<>>
    /\ cart.t = "array"
    /\ Len(cart.a) = CART_MAX_ITEMS
    /\ \A i \in 1..Len(cart.a) : cart.a[i].id # last.args[1]
    /\ storedCart = Json(cart)

\* The updateCartQuantity call just made was let through by the
\* 'update-quantity' rate-limit check.
UpdateAccepted ==
    /\ last'.op = "updateCartQuantity"
    /\ ~last'.threw
    /\ cartSecurityManager = "installed"
    /\ accepted'["update-quantity"] # <<>>
    /\ accepted'["update-quantity"][Len(accepted'["update-quantity"])] = now + 1

\* C14: updateCartQuantity(id, 0) for an id in the cart, let through by the
\* 'update-quantity' check, removes the item from the cart and from the
\* persisted cart.
C14_ZeroQuantityRemoves ==
    [][(UpdateAccepted /\ last'.args[2] = Whole(0) /\ cart.t = "array"
          /\ FindIndex(cart.a, last'.args[1]) > 0)
          => /\ cart' = [cart EXCEPT !.a =
                            SelectSeq(@, LAMBDA item : item.id # last'.args[1])]
             /\ storedCart' = Json(cart')]_vars

\* C15: an updateCartQuantity(id, q) let through by the rate limiter, with q
\* not an integer in 0..10, leaves the cart and the persisted cart unchanged
\* and shows the invalid-quantity message; with q an integer in 1..10 and
\* the id in the cart it sets that item's quantity to q, changes no other
\* item, and persists the cart.
C15_QuantityBounds ==
    [][UpdateAccepted =>
          LET id == last'.args[1]
              q == last'.args[2]
          IN  IF ~(isInteger(q) /\ AtLeast(q, Whole(0)) /\ AtMost(q, Whole(MAX_QUANTITY)))
              THEN /\ cart' = cart
                   /\ storedCart' = storedCart
                   /\ last'.msgs = <<"Invalid quantity. Must be between 0 and 10.">>
              ELSE (AtLeast(q, Whole(1)) /\ cart.t = "array" /\ FindIndex(cart.a, id) > 0) =>
                      /\ cart' = [cart EXCEPT !.a[FindIndex(cart.a, id)].quantity = q]
                      /\ storedCart' = Json(cart')]_vars

\* C15 witness: updateCartQuantity(id, 11) has just been refused for a
\* product in the cart.
C15_Witness ==
    /\ last.op = "updateCartQuantity"
    /\ last.args[2] = Whole(MAX_QUANTITY + 1)
    /\ last.msgs = <<"Invalid quantity. Must be between 0 and 10.">>
    /\ cart.t = "array"
    /\ \E i \in 1..Len(cart.a) : cart.a[i].id = last.args[1]

\* The call just made is one of addToCart, removeFromCart and
\* updateCartQuantity, and it returned.
MutatorReturned ==
    /\ last'.op \in {"addToCart", "removeFromCart", "updateCartQuantity"}
    /\ ~last'.threw

\* Storage holds this cart: its text parses to it, or there is no item and
\* the cart is empty.
Persisted(c, stored) ==
    \/ stored = Json(c)
    \/ (stored = NoItem /\ c = Arr(<<>>))

\* C16: after every addToCart, removeFromCart or updateCartQuantity call
\* that returns, the persisted cart equals the in-memory cart, and a call
\* that aborts with a message changes neither.
C16_PersistedEqualsCart ==
    [][MutatorReturned =>
          /\ Persisted(cart', storedCart')
          /\ last'.msgs # <<>> => (cart' = cart /\ storedCart' = storedCart)]_vars

\* C16, as it holds: a call of addToCart, removeFromCart or
\* updateCartQuantity that returns leaves storage holding the in-memory
\* cart, or leaves the cart and storage as they were; a call that aborts
\* with a message leaves both as they were.
C16_PersistedAfterWrite ==
    [][MutatorReturned =>
          /\ \/ storedCart' = Json(cart')
             \/ (cart' = cart /\ storedCart' = storedCart)
          /\ last'.msgs # <<>> => (cart' = cart /\ storedCart' = storedCart)]_vars

\* C16 witness: updateCartQuantity has just set a quantity to 10 in a cart
\* of two products, and storage holds the cart.
C16_Witness ==
    /\ last.op = "updateCartQuantity"
    /\ last.msgs = <<>>
    /\ last.args[2] = Whole(MAX_QUANTITY)
    /\ cart.t = "array"
    /\ Len(cart.a) = 2
    /\ \E i \in 1..Len(cart.a) :
          cart.a[i].id = last.args[1] /\ cart.a[i].quantity = last.args[2]
    /\ storedCart = Json(cart)

\* The steps of the checkout.
CheckoutSteps == {"cart", "info", "payment", "confirmation"}

\* The changes of step each operation may make.
StepChanges(op) ==
    CASE op = "nextStep" -> {<<"cart", "info">>, <<"info", "payment">>}
      [] op = "previousStep" -> {<<"info", "cart">>, <<"payment", "info">>}
      [] op = "completeOrder.resumed" -> {<<"payment", "confirmation">>}
      [] op \in {"closeCustomCheckout", "continueShopping"} ->
             {<<from, "cart">> : from \in CheckoutSteps}
      [] OTHER -> {}

\* C17: the checkout step is always one of cart, info, payment and
\* confirmation, it is cart when the checkout is constructed, and whenever it
\* changes, the change is one the operation that made it may make: nextStep
\* cart to info or info to payment, previousStep info to cart or payment to
\* info, completeOrder payment to confirmation, closeCustomCheckout any step
\* to cart.  So confirmation is never entered from cart or info, and
\* nextStep and previousStep never leave confirmation.
C17_StepTransitions ==
    /\ checkout.checkoutStep = "cart"
    /\ [](checkout.checkoutStep \in CheckoutSteps)
    /\ [][checkout'.checkoutStep # checkout.checkoutStep
            => <<checkout.checkoutStep, checkout'.checkoutStep>>
                   \in StepChanges(last'.op)]_vars

\* The required fields a form leaves empty, by their place in `required`.
MissingIn(form) ==
    {i \in 1..Len(required) :
        ~\E e \in 1..Len(form) : form[e][1] = required[i] /\ form[e][2] # ""}

\* C18: a nextStep call made at step info leaves the step at payment only
\* if the form holds a non-empty value for each of email, firstName,
\* lastName, address, city, state, zip and country, and customerInfo is then
\* the form's entries; when one of them is empty the step stays info,
\* customerInfo keeps its value, and the one message shown is
\* "<field> is required" for the first empty field in that order.
C18_InfoToPayment ==
    [][(last'.op = "nextStep" /\ checkout.checkoutStep = "info") =>
          LET form == last'.args[1]
              missing == MissingIn(form)
          IN  /\ checkout'.checkoutStep = "payment"
                    => missing = {} /\ checkout'.customerInfo = form
              /\ missing # {} =>
                    /\ checkout'.checkoutStep = "info"
                    /\ checkout'.customerInfo = checkout.customerInfo
                    /\ last'.msgs =
                           <<required[CHOOSE i \in missing :
                                         \A j \in missing : i <= j]
                             \o " is required">>]_vars

\* The continuation of a completeOrder call ran into its catch block.
CompletionFailed ==
    /\ last.op = "completeOrder.resumed"
    /\ last.msgs = <<"Order failed. Please try again.">>

\* C19: when a completeOrder call fails (its catch block runs), the failure
\* is reported, the complete button the call disabled is enabled again,
\* checkoutStep is what it was before the continuation ran and is not
\* confirmation, and the checkout's cart keeps its items.
C19_FailedCompletionKeepsStep ==
    [][CompletionFailed' =>
          /\ checkout'.checkoutStep = checkout.checkoutStep
          /\ checkout'.checkoutStep # "confirmation"
          /\ checkout'.localCart = checkout.localCart
          /\ Head(inFlight).completeBtn = "document" => ~modal'.disabled]_vars

\* The continuation of a completeOrder call ran to its end.
CompletionSucceeded ==
    /\ last.op = "completeOrder.resumed"
    /\ last.msgs = <<>>

\* localStorage holds the JSON text of an empty array.
StoredEmpty(stored) == stored = Json(Arr(<<>>))

\* C20: when a completeOrder call succeeds for a checkout whose cart holds
\* items, the step is confirmation, orderData exists with a non-empty order
\* number and with the items the checkout's cart held at completion, and the
\* carts are empty: the checkout's own cart and its 'performanceCart' item,
\* and the cart the checkout was started from, MockShopCart's, with its
\* 'mockShopCart' item.
C20_CompletedOrderEmptiesCarts ==
    [][(CompletionSucceeded' /\ checkout.localCart # <<>>) =>
          /\ checkout'.checkoutStep = "confirmation"
          /\ checkout'.orderData.t = "order"
          /\ checkout'.orderData.orderNumber # ""
          /\ ItemsOf(heap', checkout'.orderData.items)
                 = ItemsOf(heap, checkout.localCart)
          /\ checkout'.localCart = <<>>
          /\ StoredEmpty(performanceCart')
          /\ mockCart' = <<>>
          /\ StoredEmpty(mockShopCart')]_vars

\* The operations that change MockShopCart's cart.
MockMutators ==
    {"MockShopCart.addToCart", "MockShopCart.updateQuantity",
     "MockShopCart.removeItem"}

\* C21: while the checkout is open, a call of MockShopCart's addToCart,
\* updateQuantity or removeItem leaves the session as it was: the items of
\* the checkout's cart with their quantities, and its total.
C21_SessionKeepsItsCopy ==
    [][(last'.op \in MockMutators /\ modal.open) =>
          /\ ItemsOf(heap', checkout'.localCart) = ItemsOf(heap, checkout.localCart)
          /\ SumOf(ItemsOf(heap', checkout'.localCart))
                 = SumOf(ItemsOf(heap, checkout.localCart))]_vars

\* C22: a completeOrder call that starts order processing, made while the
\* complete button in the document is enabled (a click the page allows),
\* finds no other completeOrder call awaiting simulateOrderProcessing: at
\* most one order-processing task is in flight.
C22_OneOrderInFlight ==
    [][(last'.op = "completeOrder" /\ ~last'.threw /\ ~modal.disabled)
          => inFlight = <<>>]_vars

\* The entries of a stored log that is an array (none when nothing is
\* stored), and whether the store is such a log.
ReadableLog(stored) == NothingRead(stored) \/ (stored.json /\ stored.v.t = "array")

EntriesOf(stored) == IF NothingRead(stored) THEN <<>> ELSE stored.v.a

LogCalled == last.op = "logSecurityEvent"

\* C23: a logSecurityEvent call on a stored log leaves at most 100 entries:
\* the new entry is the last, the entries before it are the most recent of
\* the earlier ones in their order, and entries are dropped, oldest first,
\* only as far as the cap of 100 requires.
C23_LogKeepsNewestHundred ==
    [][(LogCalled' /\ ReadableLog(securityLogs)) =>
          LET old == EntriesOf(securityLogs)
              new == EntriesOf(securityLogs')
              dropped == Len(old) + 1 - Len(new)
          IN  /\ ReadableLog(securityLogs')
              /\ Len(new) <= 100
              /\ Len(new) = IF Len(old) + 1 <= 100 THEN Len(old) + 1 ELSE 100
              /\ new[Len(new)].event = last'.args[1].s
              /\ \A i \in 1..(Len(new) - 1) : new[i] = old[i + dropped]]_vars

\* Two events were logged on a log of 99 or more entries: 100 are kept, the
\* two new ones last.
C23_Witness ==
    /\ LogCalled
    /\ ReadableLog(securityLogs)
    /\ Len(EntriesOf(securityLogs)) = 100
    /\ EntriesOf(securityLogs)[99].event = "TEST_EVENT"
    /\ EntriesOf(securityLogs)[100].event = "rate_limit_exceeded"

\* C24: a logSecurityEvent call does not throw, and on a stored buffer that
\* is no JSON text or no array it starts the buffer anew: afterwards the
\* buffer holds exactly the new entry.
C24_CorruptLogStartsAnew ==
    [][LogCalled' =>
          /\ ~last'.threw
          /\ ~ReadableLog(securityLogs) =>
                /\ ReadableLog(securityLogs')
                /\ Len(EntriesOf(securityLogs')) = 1
                /\ EntriesOf(securityLogs')[1].event = last'.args[1].s]_vars

\* The kinds the classification table lists as HIGH.
HighKinds ==
    {"CSRF_TOKEN_INVALID", "CSRF_TOKEN_EXPIRED", "RATE_LIMIT_EXCEEDED",
     "INVALID_PRODUCT_ID", "INVALID_PRODUCT_PRICE"}

\* C25: every entry of the stored log has severity HIGH when its kind is one
\* of CSRF_TOKEN_INVALID, CSRF_TOKEN_EXPIRED, RATE_LIMIT_EXCEEDED,
\* INVALID_PRODUCT_ID and INVALID_PRODUCT_PRICE, and MEDIUM otherwise; and a
\* logSecurityEvent call invokes sendSecurityAlert once, with the entry of
\* its event, when that kind is one of the five, and not at all otherwise.
C25_SeverityAndAlerts ==
    /\ ReadableLog(securityLogs) =>
           \A i \in 1..Len(EntriesOf(securityLogs)) :
               EntriesOf(securityLogs)[i].severity
                   = IF EntriesOf(securityLogs)[i].event \in HighKinds
                     THEN "HIGH" ELSE "MEDIUM"
    /\ LogCalled =>
           IF last.args[1].s \in HighKinds
           THEN /\ Len(last.ret.a) = 1
                /\ last.ret.a[1].event = last.args[1].s
                /\ last.ret.a[1].severity = "HIGH"
           ELSE last.ret.a = <<>>

\* INVALID_PRODUCT_PRICE was logged last: stored as HIGH, one alert sent.
C25_Witness ==
    /\ LogCalled
    /\ last.args[1].s = "INVALID_PRODUCT_PRICE"
    /\ Len(last.ret.a) = 1
    /\ ReadableLog(securityLogs)
    /\ EntriesOf(securityLogs)[Len(EntriesOf(securityLogs))].severity = "HIGH"

CartCallDone == last.op = "validateCart" /\ ~IsPending

\* An element fails validateCartItem: the call yields no validated item.
ElementFails(item) ==
    validateCartItem(item).threw \/ validateCartItem(item).ret = Null

\* C26: validateCart throws 'Cart must be an array' for a value that is no
\* array, 'Cart cannot be empty' for an empty array, 'Too many items in
\* cart' for more than 50 elements and 'Invalid items detected in cart' when
\* an element fails validation; otherwise it returns an array of the same
\* length whose items have the input's field values, in the input's order.
C26_ValidateCartOutcomes ==
    CartCallDone =>
        LET cartItems == last.args[1]
            Throws(message) ==
                last.threw /\ last.ret = [t |-> "error", message |-> message]
        IN  IF cartItems.t # "array" THEN Throws("Cart must be an array")
            ELSE IF Len(cartItems.a) = 0 THEN Throws("Cart cannot be empty")
            ELSE IF Len(cartItems.a) > 50 THEN Throws("Too many items in cart")
            ELSE IF \E i \in 1..Len(cartItems.a) : ElementFails(cartItems.a[i])
            THEN Throws("Invalid items detected in cart")
            ELSE ~last.threw /\ last.ret = cartItems

\* The event validateCartItem owes for an invalid element: the one of its
\* first failing field, the id for a value that has no fields at all.
OwedEvent(item) ==
    IF validateCartItem(item).threw THEN "INVALID_PRODUCT_ID"
    ELSE validateCartItem(item).ev[1]

\* The per-item events of a completed call: all but the closing
\* INVALID_ITEMS_IN_CART.
PerItemEvents == SelectSeq(last.ev, LAMBDA e : e # "INVALID_ITEMS_IN_CART")

\* C27: for a cart of 1 to 50 elements with at least one invalid element,
\* validateCart validates every element before it throws: the per-item events
\* logged are exactly one for each invalid element, in input order, each
\* naming that element's first failing field.
C27_EveryInvalidItemLogged ==
    (/\ CartCallDone
     /\ last.args[1].t = "array"
     /\ Len(last.args[1].a) \in 1..50
     /\ \E i \in 1..Len(last.args[1].a) : ElementFails(last.args[1].a[i]))
        => /\ last.threw
           /\ PerItemEvents =
                  LET invalid == SelectSeq(last.args[1].a, ElementFails)
                  IN  [i \in 1..Len(invalid) |-> OwedEvent(invalid[i])]

\* C28: once an operation has been rate limited, a further call for it
\* returns true as soon as fewer than RATE_LIMIT_MAX (10) accepted calls for
\* that operation are left in the window that ends at the call's clock
\* reading; the rejected calls themselves do not count.
C28_AcceptedAgainAfterWindow ==
    [][(/\ last.op = "checkRateLimit"
        /\ last.ret = Bool(FALSE)
        /\ last'.op = "checkRateLimit"
        /\ last'.args = last.args
        /\ Len(InWindow(accepted[last.args[1].s], now')) < RATE_LIMIT_MAX)
           => last'.ret = Bool(TRUE)]_vars

\* C29: when the clock gives a reading that is no number, checkRateLimit
\* does not throw, returns true, and logs a security event for the anomaly.
C29_InvalidClockFailsOpenAndLogs ==
    (/\ last.op = "checkRateLimit"
     /\ Len(last.args) = 2
     /\ last.args[2] = Str("invalid-timestamp"))
        => /\ ~last.threw
           /\ last.ret = Bool(TRUE)
           /\ last.ev # <<>>

\* The call just made asked checkRateLimit('checkout'): the limiter either
\* recorded the request at this reading or logged its rejection.
ConsultedLimiter(operation) ==
    \/ RateKey(operation, now) \in DOMAIN rateLimitStore
    \/ \E i \in 1..Len(last.ev) : last.ev[i] = "RATE_LIMIT_EXCEEDED"

\* C30: every proceedToCheckout call on a page whose security manager is
\* installed consults the rate limiter for 'checkout', whatever the cart
\* holds, an empty cart included.
C30_CheckoutConsultsLimiter ==
    (/\ last.op = "proceedToCheckout"
     /\ cartSecurityManager = "installed"
     /\ ~last.threw)
        => ConsultedLimiter("checkout")

\* What validateCSRFToken would log for the session's token at this reading.
SessionTokenEvents == validateCSRFToken(csrfToken, CSRF_MAX_AGE, now).ev

\* C31: every proceedToCheckout of a non-empty cart verifies the session's
\* CSRF token: what validateCSRFToken logs for that token at the call's
\* reading (CSRF_TOKEN_EXPIRED once the token is older than an hour) is among
\* the events of the call.
C31_CheckoutVerifiesToken ==
    (/\ last.op = "proceedToCheckout"
     /\ cartSecurityManager = "installed"
     /\ LengthOf(cart) # Whole(0))
        => \A i \in 1..Len(SessionTokenEvents) :
               \E j \in 1..Len(last.ev) : last.ev[j] = SessionTokenEvents[i]

\* C32: addToCart, removeFromCart, updateCartQuantity and proceedToCheckout
\* never let an exception escape to their caller, whatever state the
\* security manager is in.
C32_NoExceptionEscapes ==
    last.op \in CartCalls => ~last.threw

SanitizeDone(type) ==
    /\ last.op = "sanitizeInput"
    /\ ~IsPending
    /\ last.args[1].t = "string"
    /\ last.args[2] = Str(type)

\* A text that is a decimal number as a whole: an optional sign, digits,
\* and optionally a point with digits, with white space around it.
IsDecimalText(s) ==
    LET body == trim(s)
        digits == IF Len(body) > 0 /\ CharAt(body, 1) \in {"+", "-"}
                  THEN SubSeq(body, 2, Len(body)) ELSE body
    IN  /\ Len(digits) > 0
        /\ \A i \in 1..Len(digits) : CharAt(digits, i) \in CharsOf(Digits) \cup {"."}
        /\ Cardinality({i \in 1..Len(digits) : CharAt(digits, i) = "."}) <= 1
        /\ \E i \in 1..Len(digits) : CharAt(digits, i) \in CharsOf(Digits)

\* C33: for every string input, sanitizeInput(input, 'number') returns a
\* number in [0, 999999]: the value of the input clamped to that range, and
\* 0 when the input is not a valid number ('abc', '123abc').
C33_NumberClampedOrZero ==
    SanitizeDone("number") =>
        /\ last.ret.t = "number"
        /\ ~last.ret.nan
        /\ AtLeast(last.ret, Whole(0))
        /\ AtMost(last.ret, Whole(999999))
        /\ IF IsDecimalText(last.args[1].s)
           THEN LET value == parseFloat(last.args[1])
                IN  last.ret = IF Less(value, Whole(0)) THEN Whole(0)
                               ELSE IF Greater(value, Whole(999999))
                               THEN Whole(999999)
                               ELSE value
           ELSE last.ret = Whole(0)

Letters == CharsOf(UpperCase) \cup CharsOf(LowerCase)

\* s holds tag markup: a '<' followed by a letter or '/', and a '>' after it.
HasTag(s) ==
    \E i \in 1..(Len(s) - 1) :
        /\ CharAt(s, i) = "<"
        /\ CharAt(s, i + 1) \in Letters \cup {"/"}
        /\ \E j \in (i + 1)..Len(s) : CharAt(s, j) = ">"

\* C34: for every string input, sanitizeInput(input, 'text') and
\* sanitizeInput(input, 'email') return a string of at most 100 characters
\* that holds no tag markup; the 'email' result is also trimmed and in lower
\* case.
C34_TextAndEmailSanitized ==
    (SanitizeDone("text") \/ SanitizeDone("email")) =>
        /\ last.ret.t = "string"
        /\ Len(last.ret.s) <= 100
        /\ ~HasTag(last.ret.s)
        /\ SanitizeDone("email") =>
               /\ trim(last.ret.s) = last.ret.s
               /\ toLowerCase(last.ret.s) = last.ret.s

\* C35: the step changes from cart to info only for a session whose cart is
\* not empty; a nextStep call made at step cart with an empty cart shows a
\* message and leaves the step at cart.
C35_InfoNeedsItems ==
    [][/\ (checkout.checkoutStep = "cart" /\ checkout'.checkoutStep = "info")
           => Len(checkout.localCart) > 0
       /\ (/\ last'.op = "nextStep"
           /\ checkout.checkoutStep = "cart"
           /\ Len(checkout.localCart) = 0)
           => /\ checkout'.checkoutStep = "cart"
              /\ last'.msgs # <<>>]_vars

\* The line items of the order snapshot, as they read now.
SnapshotItems(h, order) == ItemsOf(h, order.items)

\* C36: the order snapshot is self-consistent and immutable: its total is
\* the subtotal of its own line items plus 8% of it, at completion and ever
\* after, and no later operation changes its line items.
C36_SnapshotImmutable ==
    /\ [](checkout.orderData.t = "order" =>
             checkout.orderData.total
                 = Plus(SumOf(SnapshotItems(heap, checkout.orderData)),
                        Times(SumOf(SnapshotItems(heap, checkout.orderData)),
                              Dec(TAX_PERCENT, 2))))
    /\ [][(checkout.orderData.t = "order" /\ checkout'.orderData = checkout.orderData)
             => SnapshotItems(heap', checkout'.orderData)
                    = SnapshotItems(heap, checkout.orderData)]_vars

\* The entries of the store that are not older than the window of a call at
\* reading t.
Survivors(store, t) ==
    [k \in {k \in DOMAIN store : store[k] >= t - RATE_LIMIT_WINDOW}
        |-> store[k]]

RateCallMade(ret) == last'.op = "checkRateLimit" /\ last'.ret = Bool(ret)

\* The entries logSecurityEvent appended to the stored log in this step.
NewLogEntries ==
    SubSeq(EntriesOf(securityLogs'), Len(EntriesOf(securityLogs)) + 1,
           Len(EntriesOf(securityLogs')))

\* C37: a rejected checkRateLimit call records nothing, leaving exactly the
\* entries that survive the purge of expired ones, and logs exactly one
\* RATE_LIMIT_EXCEEDED event, of severity HIGH; an accepted call leaves the
\* survivors and one new entry, under its own operation and with its own
\* reading, and logs nothing.
C37_RejectedCallRecordsNothing ==
    [][/\ RateCallMade(FALSE) =>
              /\ rateLimitStore' = Survivors(rateLimitStore, now')
              /\ last'.ev = <<"RATE_LIMIT_EXCEEDED">>
              /\ Len(NewLogEntries) = 1
              /\ NewLogEntries[1].event = "RATE_LIMIT_EXCEEDED"
              /\ NewLogEntries[1].severity = "HIGH"
       /\ RateCallMade(TRUE) =>
              /\ rateLimitStore' =
                     [k \in DOMAIN Survivors(rateLimitStore, now')
                               \cup {RateKey(last'.args[1].s, now')} |->
                         IF k = RateKey(last'.args[1].s, now') THEN now'
                         ELSE rateLimitStore[k]]
              /\ last'.ev = <<>>
              /\ securityLogs' = securityLogs]_vars

\* A call was rejected while entries of another window were still stored.
C37_Witness ==
    /\ last.op = "checkRateLimit"
    /\ last.ret = Bool(FALSE)
    /\ Len(EntriesOf(securityLogs)) = 1
    /\ Cardinality(DOMAIN rateLimitStore) >= RATE_LIMIT_MAX

\* validateCart threw inside the proceedToCheckout call just made.
CheckoutValidationFailed ==
    /\ last'.op = "proceedToCheckout"
    /\ last'.msgs = <<"Cart validation failed. Please refresh and try again.">>

\* C38: when validateCart throws inside proceedToCheckout, the whole cart is
\* cleared, in memory and in storage.
C38_FailedCheckoutClearsCart ==
    [][CheckoutValidationFailed =>
          /\ cart' = Arr(<<>>)
          /\ storedCart' = Json(Arr(<<>>))]_vars

\* The operation name addToCart and updateCartQuantity pass to
\* checkRateLimit.
QuotaOf(op) == IF op = "addToCart" THEN "add-to-cart" ELSE "update-quantity"

AbortMessages ==
    {<<"Invalid product data. Please refresh and try again.">>,
     <<"Maximum quantity (10) reached for this item.">>,
     <<"Cart is full. Please remove some items before adding more.">>,
     <<"Invalid quantity. Must be between 0 and 10.">>}

\* The last call passed its rate-limit check and then aborted: it showed one
\* of the abort messages, or it was an updateCartQuantity, to a quantity
\* other than 0, of an id that is not in the cart.
AbortedAfterCheck ==
    /\ last.op \in {"addToCart", "updateCartQuantity"}
    /\ ~last.threw
    /\ \/ last.msgs \in AbortMessages
       \/ /\ last.op = "updateCartQuantity"
          /\ last.msgs = <<>>
          /\ last.args[2] # Whole(0)
          /\ cart.t = "array"
          /\ FindIndex(cart.a, last.args[1]) = 0

\* C39: an addToCart or updateCartQuantity call that aborts after its
\* rate-limit check has used a slot of its operation's quota; so when
\* RATE_LIMIT_MAX (10) calls of the operation have passed the check within
\* the window, the last of them aborted, the next call of that operation is
\* rate limited.
C39_AbortedCallsUseQuota ==
    /\ [](AbortedAfterCheck => RateKey(QuotaOf(last.op), now) \in DOMAIN rateLimitStore)
    /\ [][(/\ AbortedAfterCheck
           /\ last'.op = last.op
           /\ Len(InWindow(accepted[QuotaOf(last.op)], now')) >= RATE_LIMIT_MAX)
              => \E i \in 1..Len(last'.ev) : last'.ev[i] = "RATE_LIMIT_EXCEEDED"]_vars

MockItems == ItemsOf(heap, mockCart)

MockCartCalls ==
    {"MockShopCart.addToCart", "MockShopCart.updateQuantity",
     "MockShopCart.removeItem"}

\* C40: after every MockShopCart.addToCart, updateQuantity and removeItem
\* call the ids of the cart's items are pairwise different, every item's
\* quantity is an integer of 1 or more, an updateQuantity(id, q) with q <= 0
\* has left no item of that id, and the text stored under 'mockShopCart' is
\* the JSON text of the cart in memory.
C40_MockCartInvariants ==
    last.op \in MockCartCalls =>
        /\ \A i, j \in 1..Len(MockItems) :
               i # j => MockItems[i].id # MockItems[j].id
        /\ \A i \in 1..Len(MockItems) :
               isInteger(MockItems[i].quantity) /\ AtLeast(MockItems[i].quantity, Whole(1))
        /\ (last.op = "MockShopCart.updateQuantity" /\ AtMost(last.args[2], Whole(0)))
               => FindIndex(MockItems, last.args[1]) = 0
        /\ mockShopCart = stringify(Arr(MockItems))

====
